---------------------------- MODULE Spec2Model ----------------------------
(***************************************************************************)
(* A model of the push-to-talk core of Hoppy Whisper:                      *)
(*   - hotkey chord parsing and matching      (src/app/hotkey/chord.py)    *)
(*   - the hotkey interaction state machine   (src/app/hotkey/manager.py)  *)
(*   - the voice-activity detector            (src/app/audio/vad.py)       *)
(*   - the audio recorder and its callback    (src/app/audio/recorder.py)  *)
(* Time is the monotonic clock in whole seconds; audio frames are          *)
(* identified by the stream that delivered them and a sequence number.     *)
(***************************************************************************)
EXTENDS Integers, Sequences, FiniteSets, TLC

(***************************************************************************)
(* Bounds of the model.                                                    *)
(***************************************************************************)
MaxTime == 3

MaxVadFrames == 5

\* blocks the hardware delivers
MaxFrames == 3

\* InputStream objects constructed
MaxStreams == 2

\* rows of one block (BLOCKSIZE in the program)
BlockSamples == 2

\* parts of a hotkey string
MaxParts == 3

\* blocks of audio delivered in one recording session
MaxChunks == 28

\* recorder.py 18
CHANNELS == 1

\* recorder.py 20
BLOCKSIZE == 512

(***************************************************************************)
(* Small helpers.                                                          *)
(***************************************************************************)
Range(s) == {s[i] : i \in DOMAIN s}

(***************************************************************************)
(* chord.py: tables.                                                       *)
(***************************************************************************)
ModifierTokens == {"alt", "ctrl", "control", "shift", "win", "windows", "super"}

MODIFIER_FLAGS ==
    [t \in ModifierTokens |->
        CASE t = "alt" -> 1
          [] t \in {"ctrl", "control"} -> 2
          [] t = "shift" -> 4
          [] OTHER -> 8]

MODIFIER_KEYCODES ==
    [t \in ModifierTokens |->
        CASE t = "alt" -> {164, 165}
          [] t \in {"ctrl", "control"} -> {162, 163}
          [] t = "shift" -> {160, 161}
          [] OTHER -> {91, 92}]

\* part.strip().lower() on the raw parts used as inputs of the model
StripLower(part) ==
    CASE part \in {"CTRL", "Ctrl", " ctrl ", "ctrl"} -> "ctrl"
      [] part \in {"CONTROL", "Control", "control"} -> "control"
      [] part \in {"SHIFT", "Shift", "shift"} -> "shift"
      [] part \in {"ALT", "alt"} -> "alt"
      [] part \in {"WIN", "win"} -> "win"
      [] part \in {"A", "a"} -> "a"
      [] part \in {"B", "b"} -> "b"
      [] part \in {"Z", "z"} -> "z"
      [] part \in {"F9", "f9"} -> "f9"
      [] part \in {"F25", "f25"} -> "f25"
      [] part \in {"SPACE", "Space", "space"} -> "space"
      [] part \in {"FOO", "foo"} -> "foo"
      [] part \in {"", " "} -> ""
      [] OTHER -> part

\* token.upper() on normalised tokens
Upper(token) ==
    CASE token = "ctrl" -> "CTRL"
      [] token = "control" -> "CONTROL"
      [] token = "shift" -> "SHIFT"
      [] token = "alt" -> "ALT"
      [] token = "win" -> "WIN"
      [] token = "a" -> "A"
      [] token = "b" -> "B"
      [] token = "z" -> "Z"
      [] token = "f9" -> "F9"
      [] token = "f25" -> "F25"
      [] token = "space" -> "SPACE"
      [] token = "foo" -> "FOO"
      [] OTHER -> token

\* the grave accent (0xC0) is written "<grave>": the lexer rejects it in a string
Punctuation == {";", "=", ",", "-", ".", "/", "<grave>", "[", "\\", "]", "'"}

PunctuationVk(token) ==
    CASE token = ";" -> 186
      [] token = "=" -> 187
      [] token = "," -> 188
      [] token = "-" -> 189
      [] token = "." -> 190
      [] token = "/" -> 191
      [] token = "<grave>" -> 192
      [] token = "[" -> 219
      [] token = "\\" -> 220
      [] token = "]" -> 221
      [] OTHER -> 222

\* the tokens "f<digits>" among the inputs of the model, with their index
FunctionKeyIndex(token) ==
    CASE token = "f9" -> 9
      [] token = "f25" -> 25
      [] OTHER -> 0

NamedKeys == {"space", "enter", "tab", "escape", "esc", "backspace", "delete",
              "home", "end", "pageup", "pagedown", "insert",
              "up", "down", "left", "right"}

NamedVk(token) ==
    CASE token = "space" -> 32
      [] token = "enter" -> 13
      [] token = "tab" -> 9
      [] token \in {"escape", "esc"} -> 27
      [] token = "backspace" -> 8
      [] token = "delete" -> 46
      [] token = "home" -> 36
      [] token = "end" -> 35
      [] token = "pageup" -> 33
      [] token = "pagedown" -> 34
      [] token = "insert" -> 45
      [] token = "up" -> 38
      [] token = "down" -> 40
      [] token = "left" -> 37
      [] OTHER -> 39

\* single-character tokens among the inputs of the model: ord(token.upper())
SingleChars == {"a", "b", "z", "1"}

OrdUpper(token) ==
    CASE token = "a" -> 65
      [] token = "b" -> 66
      [] token = "z" -> 90
      [] OTHER -> 49

key_to_virtual_keys(token) ==
    IF token \in Punctuation THEN {PunctuationVk(token)}
    ELSE IF FunctionKeyIndex(token) >= 1 /\ FunctionKeyIndex(token) <= 24
         THEN {112 + FunctionKeyIndex(token) - 1}
    ELSE IF token \in NamedKeys THEN {NamedVk(token)}
    ELSE IF token \in SingleChars THEN {OrdUpper(token)}
    ELSE {}

(***************************************************************************)
(* chord.py: parse_hotkey and HotkeyChord.matches.  A hotkey string is     *)
(* the sequence of its parts between "+" signs, so the empty string is     *)
(* <<"">>.  The result is a chord record, or ParseError.                   *)
(***************************************************************************)
ParseError == [error |-> "HotkeyParseError"]

RECURSIVE MaskOf(_)
MaskOf(mods) ==
    IF mods = <<>> THEN 0
    ELSE LET rest == MaskOf(Tail(mods))
             flag == MODIFIER_FLAGS[Head(mods)]
         IN  IF (rest \div flag) % 2 = 1 THEN rest ELSE rest + flag

parse_hotkey(text) ==
    IF text = <<"">> THEN ParseError
    ELSE
    LET stripped == [i \in DOMAIN text |-> StripLower(text[i])]
        parts == SelectSeq(stripped, LAMBDA p : p # "")
        modifiers == SelectSeq(parts, LAMBDA p : p \in ModifierTokens)
        keys == SelectSeq(parts, LAMBDA p : p \notin ModifierTokens)
    IN  IF parts = <<>> THEN ParseError
        ELSE IF keys = <<>> THEN ParseError
        ELSE LET key_token == keys[Len(keys)]
                 key_group == key_to_virtual_keys(key_token)
             IN  IF key_group = {} THEN ParseError
                 ELSE [text |-> [i \in 1..(Len(modifiers) + 1) |->
                                   IF i <= Len(modifiers)
                                   THEN Upper(modifiers[i])
                                   ELSE Upper(key_token)],
                       modifier_mask |-> MaskOf(modifiers),
                       modifier_groups |-> [i \in 1..Len(modifiers) |->
                                              MODIFIER_KEYCODES[modifiers[i]]],
                       key_group |-> key_group]

\* HotkeyChord.display: text.upper(), part by part
display_key_only(c) == <<Upper(c.text[Len(c.text)])>>

display(c) == [i \in DOMAIN c.text |-> Upper(c.text[i])]

matches_whole_group(c, pressed_set) ==
    IF pressed_set = {} THEN FALSE
    ELSE IF c.key_group \cap pressed_set = {} THEN FALSE
    ELSE \A i \in DOMAIN c.modifier_groups :
            c.modifier_groups[i] \subseteq pressed_set

matches(c, pressed_set) ==
    IF pressed_set = {} THEN FALSE
    ELSE IF c.key_group \cap pressed_set = {} THEN FALSE
    ELSE \A i \in DOMAIN c.modifier_groups :
            ~(c.modifier_groups[i] # {} /\ c.modifier_groups[i] \cap pressed_set = {})


(***************************************************************************)
(* State.                                                                  *)
(*   hk_*   : fields of HotkeyManager (manager.py 79-92)                   *)
(*   now    : time.monotonic(), in whole seconds                           *)
(*   hk_op, hk_err, hk_disp : the last engine operation, the exception it  *)
(*            raised to its caller, and what _dispatch did during it       *)
(*   relStamp : history: whether a release has emitted stop ("none"        *)
(*            before the first), whether the chord has been pressed since  *)
(*            ("pending" until then, "used" after), and the time of it     *)
(*   sigHist : history of the signals emitted, see SigHistNext             *)
(***************************************************************************)
VARIABLES hk_chord, hk_pressed, hk_active, hk_chord_down,
          hk_last_release_time, hk_running, hk_listener, hk_registered,
          hk_reg_combo, hk_paste_window_seconds, hk_toggle_mode, platform,
          now, hk_op, hk_err, hk_disp, relStamp, sigHist

hkVars == <<hk_chord, hk_pressed, hk_active, hk_chord_down,
            hk_last_release_time, hk_running, hk_listener, hk_registered,
            hk_reg_combo, hk_paste_window_seconds, hk_toggle_mode, platform,
            now, hk_op, hk_err, hk_disp, relStamp, sigHist>>

(***************************************************************************)
(*   vad_*  : fields of VoiceActivityDetector (vad.py 50-60)               *)
(*   vad_out  : what the last process_frame call returned or raised        *)
(*   vad_hist : history: the classification (TRUE for speech) of every     *)
(*            frame processed since construction or the last reset()       *)
(*   vad_frame_len : the length of the frame last given to process_frame   *)
(*   vad_reset_from : history: _has_speech and _silence_frames as the last *)
(*            reset() found them                                           *)
(***************************************************************************)
VARIABLES vad_sample_rate, vad_frame_duration_ms, vad_trailing_silence_ms,
          vad_frame_size, vad_silence_threshold, vad_silence_frames,
          vad_has_speech, vad_out, vad_hist, vad_frame_len, vad_reset_from

vadVars == <<vad_sample_rate, vad_frame_duration_ms, vad_trailing_silence_ms,
             vad_frame_size, vad_silence_threshold, vad_silence_frames,
             vad_has_speech, vad_out, vad_hist,
            vad_frame_len, vad_reset_from>>

(***************************************************************************)
(* recorder.py: the audio recorder.                                        *)
(*   rec_*  : fields of AudioRecorder (recorder.py 33-43); rec_stream is   *)
(*            0 for None, else the identity of the InputStream object;     *)
(*            rec_lock is the thread holding _lock, or "free";             *)
(*            rec_start_time is whether _start_time is set                 *)
(*   sd_*   : the sounddevice side: the streams that are started, the      *)
(*            number of InputStream objects constructed so far, and the    *)
(*            number of blocks the hardware has delivered so far           *)
(*   pc, loc_result, ret : per calling thread, where it is inside          *)
(*            start()/stop(), the local variable result of stop(), and     *)
(*            what its last call returned or raised                        *)
(*   cb_*   : the PortAudio thread: where it is inside _audio_callback,    *)
(*            the block it was called with, and whether an exception has   *)
(*            left the callback                                            *)
(*   rec_ev : the step taken last and the thread that took it              *)
(*   hDelivered : history: the blocks whose callback found the recorder    *)
(*            recording, since start() was last called while not recording *)
(*   hAppended  : history: the blocks appended to the buffer since then    *)
(*   hListener  : history: the listener invocations since then             *)
(*   hStartCount, hSession : history: the number of blocks delivered       *)
(*            before that call of start(), and the stream that call        *)
(*            started (0 when none)                                        *)
(*   hFresh : history: no start() has been called since construction or    *)
(*            since the last stop() returned                               *)
(*   hAttached : history: a listener has been attached, without any        *)
(*            set_on_frames call, since the running callback appended      *)
(***************************************************************************)
VARIABLES rec_channels, rec_recording, rec_stream, rec_buffer, rec_lock,
          rec_start_time, rec_on_frames,
          sd_live, sd_opened, sd_frames,
          pc, loc_result, ret,
          cb_pc, cb_chunk, cb_crashed,
          rec_ev,
          hDelivered, hAppended, hListener, hStartCount, hSession, hFresh,
          hAttached

recObj == <<rec_recording, rec_stream, rec_buffer, rec_lock, rec_start_time,
            rec_on_frames>>

sdVars == <<sd_live, sd_opened, sd_frames>>

callerVars == <<pc, loc_result, ret>>

cbVars == <<cb_pc, cb_chunk, cb_crashed>>

histVars == <<hDelivered, hAppended, hListener, hStartCount, hSession,
              hFresh, hAttached>>

recVars == <<rec_channels, recObj, sdVars, callerVars, cbVars, rec_ev,
             histVars>>

(***************************************************************************)
(* A hotkey string under parse_hotkey, display and matches:                *)
(*   ch_text    : the string given to parse_hotkey, as its parts           *)
(*   ch_chord   : what parse_hotkey returned or raised for ch_text         *)
(*   ch_reparse : what parse_hotkey returned for ch_chord.display          *)
(*   ch_pressed, ch_match : the argument and the result of matches         *)
(*   ch_op      : the last call                                            *)
(***************************************************************************)
VARIABLES ch_text, ch_chord, ch_reparse, ch_pressed, ch_match, ch_op

chVars == <<ch_text, ch_chord, ch_reparse, ch_pressed, ch_match, ch_op>>

(***************************************************************************)
(* The threads of the running application and the two locks:               *)
(*   tr_pc     : where each thread is in the code it runs                  *)
(*   tr_op     : the key event or the call the thread is working on        *)
(*   tr_engine_lock : HotkeyManager._lock, a re-entrant lock: owner, depth *)
(*   tr_audio_lock  : AudioRecorder._lock: its owner                       *)
(*   tr_recording_active : AppRuntime._recording_active                    *)
(*   tr_rec_recording, tr_stream : AudioRecorder._recording, and whether   *)
(*            an input stream is running                                   *)
(*   tr_actor  : the thread that took the last step                        *)
(*   tr_listener : the thread of the keyboard listener created last        *)
(***************************************************************************)
VARIABLES tr_pc, tr_op, tr_engine_lock, tr_audio_lock, tr_recording_active,
          tr_rec_recording, tr_stream, tr_actor, tr_listener

trVars == <<tr_pc, tr_op, tr_engine_lock, tr_audio_lock, tr_recording_active,
            tr_rec_recording, tr_stream, tr_actor, tr_listener>>

(***************************************************************************)
(* The coordinator (AppRuntime's recording session):                       *)
(*   co_recording_active   : _recording_active                             *)
(*   co_vad                : _vad, with the detector's _has_speech and     *)
(*                           _silence_frames                               *)
(*   co_vad_carry          : _vad_carry, a range of sample numbers         *)
(*   co_vad_stop_requested : _vad_stop_requested                           *)
(*   co_on_frames          : whether AudioRecorder._on_frames is set       *)
(*   co_streaming          : whether the input stream delivers blocks      *)
(*   co_stop_threads       : stop threads started that have not run yet    *)
(*   co_captured           : samples captured so far in the session        *)
(*   co_speech             : the samples of the session with speech        *)
(*   co_fed                : the frames given to process_frame, each by    *)
(*                           the sample it starts at                       *)
(*   co_log                : whether should_stop was reported, who called  *)
(*                           AudioRecorder.stop(), stop threads started    *)
(***************************************************************************)
VARIABLES co_recording_active, co_vad, co_vad_carry, co_vad_stop_requested,
          co_on_frames, co_streaming, co_stop_threads, co_captured,
          co_speech, co_fed, co_log

coVars == <<co_recording_active, co_vad, co_vad_carry, co_vad_stop_requested,
            co_on_frames, co_streaming, co_stop_threads, co_captured,
            co_speech, co_fed, co_log>>

(***************************************************************************)
(* Applying settings (AppRuntime._on_settings_applied):                    *)
(*   se_pc      : the call the handler makes next                          *)
(*   se_prev    : previous_chord and previous_paste_window                 *)
(*   se_new     : the chord text and the paste window of the settings      *)
(*   se_calls   : the calls made on the engine so far, in order            *)
(*   se_outcome : how the handler ended                                    *)
(***************************************************************************)
VARIABLES se_pc, se_prev, se_new, se_calls, se_outcome

seVars == <<se_pc, se_prev, se_new, se_calls, se_outcome>>

(***************************************************************************)
(* The recording handlers of the application, run by several threads       *)
(* (AppRuntime._handle_record_start, _handle_record_stop):                 *)
(*   ap_pc     : per thread, where it is inside _handle_record_stop        *)
(*   ap_recording_active : _recording_active                               *)
(*   ap_audio_buffer     : _audio_buffer: whether it is set, and its rows  *)
(*   ap_timers : the transcription timers started and not yet fired        *)
(*   ap_log    : history of the session: the calls of AudioRecorder.stop() *)
(*               made, the timers started, the timers fired and what the   *)
(*               last one found in _audio_buffer                           *)
(***************************************************************************)
VARIABLES ap_pc, ap_recording_active, ap_audio_buffer, ap_timers, ap_log

apVars == <<ap_pc, ap_recording_active, ap_audio_buffer, ap_timers, ap_log>>

vars == <<hkVars, vadVars, recVars, chVars, trVars, coVars, seVars, apVars>>

(***************************************************************************)
(* Inputs of the hotkey engine.                                            *)
(***************************************************************************)
VK_LCONTROL == 162

VK_OEM_1 == 186

VK_A == 65

\* the virtual-key codes the listener delivers
Keys == {VK_LCONTROL, VK_OEM_1, VK_A}

\* hotkey strings handed to the constructor and to update_chord
ChordTextDefault == <<"CTRL", ";">>

ChordTexts == {ChordTextDefault, <<"ctrl", "a">>, <<"ctrl">>, <<"">>,
               <<"ctrl", "foo">>}

\* durations handed to set_paste_window_seconds
PasteWindowInputs == {-1, 0, 2, 5, 6}

\* what RegisterHotKey returns, and GetLastError() after it
ERROR_HOTKEY_ALREADY_REGISTERED == 1409

OsOk == [ok |-> TRUE, error |-> 0]

\* failures: already registered, no error code set, access denied (5)
OsResults ==
    {OsOk} \cup
    {[ok |-> FALSE, error |-> e] : e \in {ERROR_HOTKEY_ALREADY_REGISTERED, 0, 5}}

\* RegisterHotKey is only called on Windows
OsResultsHere ==
    IF platform = "win32" THEN OsResults ELSE {OsOk}

NoDispatch ==
    [signal |-> "none", raised |-> FALSE, on_error_calls |-> 0,
     on_error_raised |-> FALSE, propagated |-> FALSE]

(***************************************************************************)
(* manager.py: helpers.                                                    *)
(***************************************************************************)
\* _dispatch: the handler runs; when it raises, on_error is called once with
\* the exception, and an exception of on_error is logged, not re-raised
dispatch_reraise(signal, hraise, eraise) ==
    [signal |-> signal, raised |-> hraise,
     on_error_calls |-> IF hraise THEN 1 ELSE 0,
     on_error_raised |-> hraise /\ eraise, propagated |-> hraise /\ eraise]

dispatch(signal, hraise, eraise) ==
    [signal |-> signal, raised |-> hraise,
     on_error_calls |-> IF hraise THEN 1 ELSE 0,
     on_error_raised |-> hraise /\ eraise, propagated |-> FALSE]

\* _validate_paste_window: ValueError, or the duration
validate_paste_window_upper_only(duration) ==
    IF ~(duration <= 5)
    THEN [err |-> "ValueError", value |-> duration]
    ELSE [err |-> "none", value |-> duration]

validate_paste_window(duration) ==
    IF ~(0 <= duration /\ duration <= 5)
    THEN [err |-> "ValueError", value |-> duration]
    ELSE [err |-> "none", value |-> duration]

\* the (modifiers, virtual key) pair RegisterHotKey is called with
Combo(c) == <<c.modifier_mask, CHOOSE vk \in c.key_group : TRUE>>

\* _ensure_hotkey_available: the exception raised, or "none"
ensure_hotkey_available(c, code) ==
    IF platform # "win32" THEN "none"
    ELSE IF ~code.ok
         THEN IF code.error \in {0, ERROR_HOTKEY_ALREADY_REGISTERED}
              THEN "HotkeyInUseError" ELSE "HotkeyRegistrationError"
         ELSE "none"

\* _register_hotkey: the exception raised, or "none"
register_hotkey(code) ==
    IF ~code.ok
    THEN IF code.error = ERROR_HOTKEY_ALREADY_REGISTERED
         THEN "HotkeyInUseError" ELSE "HotkeyRegistrationError"
    ELSE "none"

\* RegisterHotKey fails with 1409 for a combination this process holds
OsAllows(c, code) ==
    (hk_registered /\ hk_reg_combo = Combo(c)) =>
        code = [ok |-> FALSE, error |-> ERROR_HOTKEY_ALREADY_REGISTERED]

\* _parse_and_validate on a string: the exception raised, or the chord
parse_and_validate(text, code) ==
    LET c == parse_hotkey(text)
    IN  IF c = ParseError THEN [err |-> "HotkeyParseError", chord |-> c]
        ELSE [err |-> ensure_hotkey_available(c, code), chord |-> c]

(***************************************************************************)
(* manager.py: the key-event handlers, run under the engine lock.          *)
(***************************************************************************)
\* the replay test of _on_press (lines 169-171)
in_paste_window_strict ==
    hk_last_release_time # 0
    /\ now - hk_last_release_time < hk_paste_window_seconds

in_paste_window ==
    hk_last_release_time # 0
    /\ now - hk_last_release_time <= hk_paste_window_seconds

\* _on_press for a key with virtual-key code vk
on_press(vk, hraise, eraise) ==
    LET pressed1 == hk_pressed \cup {vk}
    IN  /\ hk_pressed' = pressed1
        /\ IF ~matches(hk_chord, pressed1)
           THEN /\ hk_disp' = NoDispatch
                /\ UNCHANGED <<hk_active, hk_chord_down, hk_last_release_time>>
           ELSE IF hk_toggle_mode
           THEN IF hk_chord_down
                THEN /\ hk_disp' = NoDispatch
                     /\ UNCHANGED <<hk_active, hk_chord_down,
                                    hk_last_release_time>>
                ELSE /\ hk_chord_down' = TRUE
                     /\ IF ~hk_active
                        THEN /\ hk_active' = TRUE
                             /\ hk_disp' = dispatch("start", hraise, eraise)
                             /\ UNCHANGED hk_last_release_time
                        ELSE /\ hk_active' = FALSE
                             /\ hk_last_release_time' = 0
                             /\ hk_disp' = dispatch("stop", hraise, eraise)
           ELSE IF hk_active
           THEN /\ hk_disp' = NoDispatch
                /\ UNCHANGED <<hk_active, hk_chord_down, hk_last_release_time>>
           ELSE IF in_paste_window
           THEN /\ hk_last_release_time' = 0
                /\ hk_disp' = dispatch("replay", hraise, eraise)
                /\ UNCHANGED <<hk_active, hk_chord_down>>
           ELSE /\ hk_active' = TRUE
                /\ hk_disp' = dispatch("start", hraise, eraise)
                /\ UNCHANGED <<hk_chord_down, hk_last_release_time>>

\* _on_release lines 178-195, without the return of toggle mode (186-188)
on_release_toggle_falls_through(vk, hraise, eraise) ==
    LET pressed1 == hk_pressed \ {vk}
        sat == matches(hk_chord, pressed1)
    IN  /\ hk_pressed' = pressed1
        /\ hk_chord_down' = IF ~sat THEN FALSE ELSE hk_chord_down
        /\ IF ~hk_active \/ sat
           THEN /\ hk_disp' = NoDispatch
                /\ UNCHANGED <<hk_active, hk_last_release_time>>
           ELSE /\ hk_active' = FALSE
                /\ hk_last_release_time' = now
                /\ hk_disp' = dispatch("stop", hraise, eraise)

\* _on_release for a key with virtual-key code vk
on_release(vk, hraise, eraise) ==
    LET pressed1 == hk_pressed \ {vk}
        sat == matches(hk_chord, pressed1)
    IN  /\ hk_pressed' = pressed1
        /\ hk_chord_down' = IF ~sat THEN FALSE ELSE hk_chord_down
        /\ IF hk_toggle_mode \/ ~hk_active \/ sat
           THEN /\ hk_disp' = NoDispatch
                /\ UNCHANGED <<hk_active, hk_last_release_time>>
           ELSE /\ hk_active' = FALSE
                /\ hk_last_release_time' = now
                /\ hk_disp' = dispatch("stop", hraise, eraise)

hkConfig == <<hk_chord, hk_running, hk_listener, hk_registered, hk_reg_combo,
              hk_paste_window_seconds, hk_toggle_mode, platform>>

\* the history of the release that a chord press may turn into a replay
RelStampNext ==
    relStamp' =
        IF hk_op' = "release" /\ hk_disp'.signal = "stop"
        THEN [state |-> "pending", at |-> now]
        ELSE IF hk_op' = "press" /\ relStamp.state = "pending"
                /\ ~matches(hk_chord, hk_pressed)
                /\ matches(hk_chord, hk_pressed')
        THEN [state |-> "used", at |-> relStamp.at]
        ELSE relStamp

\* the history of the signals: open, a start has been emitted and no stop
\* after it; held, replay has been emitted and the chord has stayed
\* satisfied at every key event since
SigHistNext ==
    sigHist' =
        [open |-> CASE hk_disp'.signal = "start" -> TRUE
                    [] hk_disp'.signal = "stop" -> FALSE
                    [] OTHER -> sigHist.open,
         held |-> \/ hk_disp'.signal = "replay"
                  \/ /\ sigHist.held
                     /\ matches(hk_chord, hk_pressed)
                     /\ matches(hk_chord, hk_pressed')]

\* the listener thread delivers a key-down: a newly pressed key, or the
\* auto-repeat of a held one
KeyDown(k) ==
    /\ hk_listener
    /\ \E hraise \in BOOLEAN :
          \E eraise \in (IF hraise THEN BOOLEAN ELSE {FALSE}) :
             on_press(k, hraise, eraise)
    /\ hk_op' = "press"
    /\ hk_err' = "none"
    /\ RelStampNext
    /\ SigHistNext
    /\ UNCHANGED <<hkConfig, now>>

\* the listener thread delivers a key-up
KeyUp(k) ==
    /\ hk_listener
    /\ \E hraise \in BOOLEAN :
          \E eraise \in (IF hraise THEN BOOLEAN ELSE {FALSE}) :
             on_release(k, hraise, eraise)
    /\ hk_op' = "release"
    /\ hk_err' = "none"
    /\ RelStampNext
    /\ SigHistNext
    /\ UNCHANGED <<hkConfig, now>>

\* _on_press / _on_release for a key without a virtual-key code: return
KeyWithoutVk ==
    /\ hk_listener
    /\ hk_op' = "novk"
    /\ hk_err' = "none"
    /\ hk_disp' = NoDispatch
    /\ UNCHANGED <<hkConfig, now, relStamp, sigHist, hk_pressed,
                   hk_active, hk_chord_down, hk_last_release_time>>

\* time.monotonic() advances
Tick ==
    /\ now < MaxTime
    /\ now' = now + 1
    /\ hk_op' = "tick"
    /\ hk_err' = "none"
    /\ hk_disp' = NoDispatch
    /\ UNCHANGED <<hkConfig, relStamp, sigHist, hk_pressed,
                   hk_active, hk_chord_down, hk_last_release_time>>

(***************************************************************************)
(* manager.py: the operations of the caller thread.                        *)
(***************************************************************************)
hkKeyState == <<hk_pressed, hk_active, hk_chord_down, hk_last_release_time,
                relStamp, sigHist, now>>

set_paste_window_seconds(duration) ==
    /\ IF validate_paste_window(duration).err # "none"
       THEN /\ hk_err' = validate_paste_window(duration).err
            /\ UNCHANGED hk_paste_window_seconds
       ELSE /\ hk_err' = "none"
            /\ hk_paste_window_seconds' = validate_paste_window(duration).value
    /\ hk_op' = "set_paste_window"
    /\ hk_disp' = NoDispatch
    /\ UNCHANGED <<hk_chord, hk_running, hk_listener, hk_registered,
                   hk_reg_combo, hk_toggle_mode, platform, hkKeyState>>

\* update_chord, lines 108-114
update_chord_clear_first(chord_text, code) ==
    /\ parse_hotkey(chord_text) # ParseError => OsAllows(parse_hotkey(chord_text), code)
    /\ LET r == parse_and_validate(chord_text, code)
       IN  /\ hk_err' = r.err
           /\ hk_chord' = IF r.err # "none" THEN hk_chord ELSE r.chord
           /\ hk_pressed' = {}
           /\ hk_active' = FALSE
    /\ hk_op' = "update_chord"
    /\ hk_disp' = NoDispatch
    /\ UNCHANGED <<hk_running, hk_listener, hk_registered, hk_reg_combo,
                   hk_paste_window_seconds, hk_toggle_mode, platform,
                   hk_chord_down, hk_last_release_time, relStamp, sigHist, now>>

update_chord_keep_pressed(chord_text, code) ==
    /\ parse_hotkey(chord_text) # ParseError => OsAllows(parse_hotkey(chord_text), code)
    /\ LET r == parse_and_validate(chord_text, code)
       IN  /\ hk_err' = r.err
           /\ hk_chord' = IF r.err # "none" THEN hk_chord ELSE r.chord
           /\ UNCHANGED <<hk_pressed, hk_active>>
    /\ hk_op' = "update_chord"
    /\ hk_disp' = NoDispatch
    /\ UNCHANGED <<hk_running, hk_listener, hk_registered, hk_reg_combo,
                   hk_paste_window_seconds, hk_toggle_mode, platform,
                   hk_chord_down, hk_last_release_time, relStamp, sigHist, now>>

update_chord(chord_text, code) ==
    /\ parse_hotkey(chord_text) # ParseError => OsAllows(parse_hotkey(chord_text), code)
    /\ LET r == parse_and_validate(chord_text, code)
       IN  IF r.err # "none"
           THEN /\ hk_err' = r.err
                /\ UNCHANGED <<hk_chord, hk_pressed, hk_active>>
           ELSE /\ hk_err' = "none"
                /\ hk_chord' = r.chord
                /\ hk_pressed' = {}
                /\ hk_active' = FALSE
    /\ hk_op' = "update_chord"
    /\ hk_disp' = NoDispatch
    /\ UNCHANGED <<hk_running, hk_listener, hk_registered, hk_reg_combo,
                   hk_paste_window_seconds, hk_toggle_mode, platform,
                   hk_chord_down, hk_last_release_time, relStamp, sigHist, now>>

hk_start(code1, code2) ==
    /\ OsAllows(hk_chord, code1)
    /\ IF hk_running
       THEN /\ hk_err' = "none"
            /\ UNCHANGED <<hk_running, hk_listener, hk_registered, hk_reg_combo>>
       ELSE IF ensure_hotkey_available(hk_chord, code1) # "none"
       THEN /\ hk_err' = ensure_hotkey_available(hk_chord, code1)
            /\ UNCHANGED <<hk_running, hk_listener, hk_registered, hk_reg_combo>>
       ELSE IF platform = "win32" /\ register_hotkey(code2) # "none"
       THEN /\ hk_err' = register_hotkey(code2)
            /\ UNCHANGED <<hk_running, hk_listener, hk_registered, hk_reg_combo>>
       ELSE /\ hk_err' = "none"
            /\ hk_registered' = (platform = "win32")
            /\ hk_reg_combo' = IF platform = "win32" THEN Combo(hk_chord)
                               ELSE hk_reg_combo
            /\ hk_listener' = TRUE
            /\ hk_running' = TRUE
    /\ hk_op' = "start"
    /\ hk_disp' = NoDispatch
    /\ UNCHANGED <<hk_chord, hk_paste_window_seconds, hk_toggle_mode, platform,
                   hkKeyState>>

hk_stop ==
    /\ IF ~hk_running
       THEN UNCHANGED <<hk_running, hk_listener, hk_registered, hk_pressed,
                        hk_active>>
       ELSE /\ hk_listener' = FALSE
            /\ hk_registered' = FALSE
            /\ hk_running' = FALSE
            /\ hk_pressed' = {}
            /\ hk_active' = FALSE
    /\ hk_op' = "stop"
    /\ hk_err' = "none"
    /\ hk_disp' = NoDispatch
    /\ UNCHANGED <<hk_chord, hk_reg_combo, hk_paste_window_seconds,
                   hk_toggle_mode, platform, hk_chord_down,
                   hk_last_release_time, relStamp, sigHist, now>>

(***************************************************************************)
(* The hotkey engine after construction, and its steps.                    *)
(***************************************************************************)
HkInit ==
    /\ hk_toggle_mode \in BOOLEAN
    /\ platform \in {"win32", "other"}
    /\ hk_chord = parse_hotkey(ChordTextDefault)
    /\ hk_pressed = {}
    /\ hk_active = FALSE
    /\ hk_chord_down = FALSE
    /\ hk_last_release_time = 0
    /\ hk_running = FALSE
    /\ hk_listener = FALSE
    /\ hk_registered = FALSE
    /\ hk_reg_combo = <<>>
    /\ hk_paste_window_seconds = 2
    /\ now = 1
    /\ hk_op = "init"
    /\ hk_err = "none"
    /\ hk_disp = NoDispatch
    /\ relStamp = [state |-> "none", at |-> 0]
    /\ sigHist = [open |-> FALSE, held |-> FALSE]

\* the other components stay as they are during a step of the engine
HkFrame == UNCHANGED <<vadVars, recVars, chVars, trVars, coVars, seVars,
                        apVars>>

HkNext ==
    \/ \E k \in Keys : KeyDown(k) /\ HkFrame
    \/ \E k \in Keys : KeyUp(k) /\ HkFrame
    \/ KeyWithoutVk /\ HkFrame
    \/ Tick /\ HkFrame
    \/ \E d \in PasteWindowInputs : set_paste_window_seconds(d) /\ HkFrame
    \/ \E t \in ChordTexts :
          \E code \in (IF parse_hotkey(t) = ParseError THEN {OsOk}
                       ELSE OsResultsHere) : update_chord(t, code) /\ HkFrame
    \/ \E code1 \in OsResultsHere :
          \E code2 \in (IF code1.ok THEN OsResultsHere ELSE {OsOk}) :
             hk_start(code1, code2) /\ HkFrame
    \/ hk_stop /\ HkFrame

(***************************************************************************)
(* vad.py: the voice-activity detector.                                    *)
(***************************************************************************)
\* sample rates, frame durations and trailing silences the detector is
\* constructed with (the constructor rejects other rates and durations)
SampleRates == {8000, 16000}

FrameDurations == {10, 20, 30}

TrailingSilences == {0, 5, 25, 30, 45, 60}

NoVadResult == [kind |-> "none", is_speech |-> FALSE, should_stop |-> FALSE]

\* __init__ line 55
frame_size_of(sample_rate, frame_duration_ms) ==
    (sample_rate * frame_duration_ms) \div 1000

\* __init__ line 59, rounding up instead of down
silence_threshold_ceil(trailing_silence_ms, frame_duration_ms) ==
    (trailing_silence_ms + frame_duration_ms - 1) \div frame_duration_ms

\* __init__ line 59
silence_threshold_of(trailing_silence_ms, frame_duration_ms) ==
    trailing_silence_ms \div frame_duration_ms

\* process_frame lines 123-125, with a strict comparison
should_stop_strict(has_speech, silence_frames) ==
    has_speech /\ silence_frames > vad_silence_threshold

\* process_frame lines 123-125
should_stop_of(has_speech, silence_frames) ==
    has_speech /\ silence_frames >= vad_silence_threshold

vadParams == <<vad_sample_rate, vad_frame_duration_ms, vad_trailing_silence_ms,
               vad_frame_size, vad_silence_threshold>>

\* before the first reset()
NoReset == [has_speech |-> FALSE, silence_frames |-> -1]

\* process_frame lines 101-104, accepting shorter frames
frame_size_ok_at_most(frame_len) == frame_len <= vad_frame_size

\* process_frame lines 101-104: the length test on the flattened frame
frame_size_ok(frame_len) == frame_len = vad_frame_size

\* process_frame on a frame of frame_len samples that webrtcvad classifies
\* as speech (is_speech) or silence
process_frame(frame_len, is_speech) ==
    /\ Len(vad_hist) < MaxVadFrames
    /\ vad_frame_len' = frame_len
    /\ UNCHANGED vad_reset_from
    /\ IF ~frame_size_ok(frame_len)
       THEN /\ vad_out' = [kind |-> "ValueError", is_speech |-> FALSE,
                           should_stop |-> FALSE]
            /\ UNCHANGED <<vad_has_speech, vad_silence_frames, vad_hist>>
       ELSE LET has_speech1 == IF is_speech THEN TRUE ELSE vad_has_speech
                silence1 == IF is_speech THEN 0 ELSE vad_silence_frames + 1
            IN  /\ vad_has_speech' = has_speech1
                /\ vad_silence_frames' = silence1
                /\ vad_out' = [kind |-> "result", is_speech |-> is_speech,
                               should_stop |-> should_stop_of(has_speech1, silence1)]
                /\ vad_hist' = Append(vad_hist, is_speech)
    /\ UNCHANGED vadParams

\* reset lines 82-86, leaving _has_speech as it is
reset_keep_speech ==
    /\ vad_silence_frames' = 0
    /\ UNCHANGED vad_has_speech
    /\ vad_out' = NoVadResult
    /\ vad_hist' = <<>>
    /\ vad_frame_len' = 0
    /\ vad_reset_from' = [has_speech |-> vad_has_speech,
                          silence_frames |-> vad_silence_frames]
    /\ UNCHANGED vadParams

reset ==
    /\ vad_silence_frames' = 0
    /\ vad_has_speech' = FALSE
    /\ vad_out' = NoVadResult
    /\ vad_hist' = <<>>
    /\ vad_frame_len' = 0
    /\ vad_reset_from' = [has_speech |-> vad_has_speech,
                          silence_frames |-> vad_silence_frames]
    /\ UNCHANGED vadParams

\* the detector after VoiceActivityDetector(sample_rate, frame_duration_ms,
\* aggressiveness, trailing_silence_ms)
VadConstructed(sample_rate, frame_duration_ms, trailing_silence_ms) ==
    /\ vad_sample_rate = sample_rate
    /\ vad_frame_duration_ms = frame_duration_ms
    /\ vad_trailing_silence_ms = trailing_silence_ms
    /\ vad_frame_size = frame_size_of(sample_rate, frame_duration_ms)
    /\ vad_silence_frames = 0
    /\ vad_silence_threshold =
          silence_threshold_of(trailing_silence_ms, frame_duration_ms)
    /\ vad_has_speech = FALSE
    /\ vad_out = NoVadResult
    /\ vad_hist = <<>>
    /\ vad_frame_len = 0
    /\ vad_reset_from = NoReset

VadInit ==
    \E sr \in SampleRates, fd \in FrameDurations, ts \in TrailingSilences :
        VadConstructed(sr, fd, ts)

\* the defaults of create_vad / VoiceActivityDetector.__init__
VadDefault == VadConstructed(16000, 30, 700)

\* the other components stay as they are during a step of the detector
VadFrame == UNCHANGED <<hkVars, recVars, chVars, trVars, coVars, seVars,
                         apVars>>

\* the lengths of the frames given: right, one short, one long
FrameLengths == {vad_frame_size, vad_frame_size - 1, vad_frame_size + 1}

VadNext ==
    \/ \E frame_len \in FrameLengths, is_speech \in BOOLEAN :
             process_frame(frame_len, is_speech) /\ VadFrame
    \/ reset /\ VadFrame

(***************************************************************************)
(* recorder.py: inputs and pure parts.                                     *)
(***************************************************************************)
Callers == {"c1", "c2"}

ChannelCounts == {1, 2}

\* a block of audio: the stream whose callback delivered it and its number
\* in the order of delivery
NoChunk == [stream |-> 0, seq |-> 0]

\* the rows of a block, in order (indata has one row per sample)
Rows(chunk) == [i \in 1..BlockSamples |->
                   [stream |-> chunk.stream, seq |-> chunk.seq, row |-> i]]

\* np.array([], dtype).reshape(0, channels)
empty_array(channels) == [data |-> <<>>, channels |-> channels]

\* np.concatenate(buffer, axis=0): the rows of the blocks, block after block
RECURSIVE concatenate_rows(_)
concatenate_rows(buffer) ==
    IF buffer = <<>> THEN <<>>
    ELSE Rows(Head(buffer)) \o concatenate_rows(Tail(buffer))

concatenate(buffer, channels) ==
    [data |-> concatenate_rows(buffer), channels |-> channels]

\* what sounddevice shows to one start() call:
\*   is_mock        sd is a unittest.mock object (recorder.py 96-102)
\*   default_input  sd.default.device[0]: None, -1, or a device index
\*   output_unset   sd.default.device[1] is -1
\*   has_inputs     some device of query_devices() has input channels
\*   device_channels  max_input_channels of the device start() looks at:
\*                  the default input, or the first input-capable device
\*                  when the default is None
\*   recovery_test  a frame of test_error_recovery.py, other than the
\*                  missing-device test, is on the call stack
DeviceEnvs ==
    { e \in [is_mock : BOOLEAN, default_input : {"none", "neg", "valid"},
             output_unset : BOOLEAN, has_inputs : BOOLEAN,
             device_channels : {0, 1, 2}, recovery_test : BOOLEAN] :
        /\ (~e.is_mock /\ e.device_channels > 0) => e.has_inputs
        /\ (~e.is_mock /\ e.default_input = "none" /\ e.has_inputs)
              => e.device_channels > 0 }

\* _verify_device_available: "ok", or the message of the AudioDeviceError
verify_device_available(e, channels) ==
    IF e.default_input \in {"none", "neg"}
          /\ (e.is_mock \/ e.default_input = "neg" \/ ~e.has_inputs)
    THEN "no default input device"
    ELSE IF e.device_channels < channels THEN "channels" ELSE "ok"

\* start(), lines 91-166: what follows the device check
start_decision(e, verdict) ==
    LET explicit_invalid == e.default_input = "neg" /\ e.output_unset
        channels_error == verdict = "channels"
    IN  IF verdict = "ok" THEN "open"
        ELSE IF e.recovery_test THEN "degraded"
        ELSE IF e.is_mock \/ channels_error
                   \/ (explicit_invalid /\ e.has_inputs)
             THEN "raise"
             ELSE "degraded"

\* start(), lines 62-64
already_recording_never == FALSE

already_recording == rec_recording

\* _audio_callback, lines 272-275: whether an exception of the listener
\* leaves the callback
listener_error_propagates_uncaught(raised) == raised

listener_error_propagates(raised) == FALSE

NoReturn == [op |-> "none", outcome |-> "none", data |-> <<>>,
             channels |-> 0, no_default |-> FALSE, few_channels |-> FALSE,
             fresh |-> FALSE]

NoResult == [data |-> <<>>, channels |-> 0, fresh |-> FALSE]

StartReturn(outcome, no_default, few_channels) ==
    [op |-> "start", outcome |-> outcome, data |-> <<>>, channels |-> 0,
     no_default |-> no_default, few_channels |-> few_channels,
     fresh |-> FALSE]

StopReturn(result, fresh) ==
    [op |-> "stop", outcome |-> "returned", data |-> result.data,
     channels |-> result.channels, no_default |-> FALSE,
     few_channels |-> FALSE, fresh |-> fresh]

(***************************************************************************)
(* recorder.py: start(), one step per span of code between two points      *)
(* where another thread can run.                                           *)
(***************************************************************************)
Return(t, r) == ret' = [ret EXCEPT ![t] = r]

Goto(t, label) == pc' = [pc EXCEPT ![t] = label]

Ev(op, t) == rec_ev' = [op |-> op, t |-> t]

\* whether start() looks at the channels of a device under e
DeviceQueried(e) ==
    \/ e.default_input = "valid"
    \/ e.default_input = "none" /\ ~e.is_mock /\ e.has_inputs

\* lines 62-166 up to the lock: the recording test, the device check and
\* the choice between raising, degraded mode and opening a stream
rec_start_check(t) ==
    /\ pc[t] = "idle"
    /\ hFresh' = FALSE
    /\ IF already_recording
       THEN /\ Return(t, StartReturn("noop", FALSE, FALSE))
            /\ Ev("start_noop", t)
            /\ UNCHANGED <<pc, hDelivered, hAppended, hListener,
                           hStartCount, hSession>>
       ELSE /\ sd_opened < MaxStreams
            /\ hDelivered' = <<>>
            /\ hAppended' = {}
            /\ hListener' = <<>>
            /\ hStartCount' = sd_frames
            /\ hSession' = 0
            /\ \E e \in DeviceEnvs :
                 LET verdict == verify_device_available(e, rec_channels)
                     decision == start_decision(e, verdict)
                     no_default == e.default_input \in {"none", "neg"}
                     few == DeviceQueried(e)
                               /\ e.device_channels < rec_channels
                 IN  CASE decision = "raise" ->
                            /\ Return(t, StartReturn("AudioDeviceError",
                                                     no_default, few))
                            /\ Ev("start_raise_device", t)
                            /\ UNCHANGED pc
                       [] decision = "degraded" ->
                            /\ Return(t, StartReturn("pending",
                                                     no_default, few))
                            /\ Ev("start_check", t)
                            /\ Goto(t, "start_degraded")
                       [] decision = "open" ->
                            /\ Return(t, StartReturn("pending",
                                                     no_default, few))
                            /\ Ev("start_check", t)
                            /\ Goto(t, "start_lock")
    /\ UNCHANGED <<rec_channels, recObj, sdVars, loc_result, cbVars,
                   hAttached>>

\* lines 149-152, 161-164 and 168-171: under the lock, clear the buffer and
\* raise the recording flag
rec_start_locked(t) ==
    /\ pc[t] \in {"start_lock", "start_degraded"}
    /\ rec_lock = "free"
    /\ rec_lock' = t
    /\ rec_buffer' = <<>>
    /\ rec_recording' = TRUE
    /\ rec_start_time' = TRUE
    /\ Goto(t, IF pc[t] = "start_lock" THEN "start_unlock"
               ELSE "start_degraded_unlock")
    /\ Ev("start_locked", t)
    /\ UNCHANGED <<rec_channels, rec_stream, rec_on_frames, sdVars,
                   loc_result, ret, cbVars, histVars>>

\* leaving the with-block; in degraded mode start() returns here (153-154,
\* 165-166)
rec_start_unlock(t) ==
    /\ pc[t] \in {"start_unlock", "start_degraded_unlock"}
    /\ rec_lock = t
    /\ rec_lock' = "free"
    /\ IF pc[t] = "start_degraded_unlock"
       THEN /\ Return(t, [ret[t] EXCEPT !.outcome = "degraded"])
            /\ Goto(t, "idle")
            /\ Ev("start_degraded", t)
       ELSE /\ Goto(t, "start_open")
            /\ Ev("start_unlock", t)
            /\ UNCHANGED ret
    /\ UNCHANGED <<rec_channels, rec_recording, rec_stream, rec_buffer,
                   rec_start_time, rec_on_frames, sdVars, loc_result,
                   cbVars, histVars>>

\* lines 173-191: construct the InputStream and start it; how is "ok", or
\* the call that raises: "constructor" or "start"
rec_start_open(t, how) ==
    /\ pc[t] = "start_open"
    /\ Goto(t, "idle")
    /\ CASE how = "ok" ->
              /\ sd_opened' = sd_opened + 1
              /\ rec_stream' = sd_opened + 1
              /\ sd_live' = sd_live \cup {sd_opened + 1}
              /\ hSession' = sd_opened + 1
              /\ Return(t, [ret[t] EXCEPT !.outcome = "ok"])
              /\ Ev("start_ok", t)
              /\ UNCHANGED <<rec_recording, rec_start_time>>
         [] how = "constructor" ->
              /\ rec_recording' = FALSE
              /\ rec_start_time' = FALSE
              /\ Return(t, [ret[t] EXCEPT !.outcome = "AudioCaptureError"])
              /\ Ev("start_raise_capture", t)
              /\ UNCHANGED <<rec_stream, sd_live, sd_opened, hSession>>
         [] how = "start" ->
              /\ sd_opened' = sd_opened + 1
              /\ rec_stream' = sd_opened + 1
              /\ rec_recording' = FALSE
              /\ rec_start_time' = FALSE
              /\ Return(t, [ret[t] EXCEPT !.outcome = "AudioCaptureError"])
              /\ Ev("start_raise_capture", t)
              /\ UNCHANGED <<sd_live, hSession>>
    /\ UNCHANGED <<rec_channels, rec_buffer, rec_lock, rec_on_frames,
                   sd_frames, loc_result, cbVars, hDelivered, hAppended,
                   hListener, hStartCount, hFresh, hAttached>>

(***************************************************************************)
(* recorder.py: stop().                                                    *)
(***************************************************************************)
\* lines 200-202: the recording test, and the return when not recording
rec_stop_check(t) ==
    /\ pc[t] = "idle"
    /\ IF ~rec_recording
       THEN /\ Return(t, StopReturn(empty_array(rec_channels), hFresh))
            /\ hFresh' = TRUE
            /\ Ev("stop_return", t)
            /\ UNCHANGED <<pc, loc_result>>
       ELSE /\ Goto(t, "stop_flag")
            /\ loc_result' = [loc_result EXCEPT ![t].fresh = hFresh]
            /\ Ev("stop_check", t)
            /\ UNCHANGED <<ret, hFresh>>
    /\ UNCHANGED <<rec_channels, recObj, sdVars, cbVars, hDelivered,
                   hAppended, hListener, hStartCount, hSession, hAttached>>

\* line 204
rec_stop_flag(t) ==
    /\ pc[t] = "stop_flag"
    /\ rec_recording' = FALSE
    /\ Goto(t, "stop_stream")
    /\ Ev("stop_flag", t)
    /\ UNCHANGED <<rec_channels, rec_stream, rec_buffer, rec_lock,
                   rec_start_time, rec_on_frames, sdVars, loc_result, ret,
                   cbVars, histVars>>

\* line 208: stream.stop() returns once the callback of that stream is not
\* running
callback_quiescent_nowait(s) == TRUE

callback_quiescent(s) == cb_pc = "idle" \/ cb_chunk.stream # s

\* lines 206-213: stop and close the stream, forget it
rec_stop_stream(t) ==
    /\ pc[t] = "stop_stream"
    /\ rec_stream # 0 => callback_quiescent(rec_stream)
    /\ sd_live' = sd_live \ {rec_stream}
    /\ rec_stream' = 0
    /\ Goto(t, "stop_lock")
    /\ Ev("stop_stream", t)
    /\ UNCHANGED <<rec_channels, rec_recording, rec_buffer, rec_lock,
                   rec_start_time, rec_on_frames, sd_opened, sd_frames,
                   loc_result, ret, cbVars, histVars>>

\* lines 215-221: under the lock, take the buffer and clear it
rec_stop_take_keep(t) ==
    /\ pc[t] = "stop_lock"
    /\ rec_lock = "free"
    /\ rec_lock' = t
    /\ loc_result' = [loc_result EXCEPT
          ![t].data = IF rec_buffer = <<>> THEN <<>>
                      ELSE concatenate(rec_buffer, rec_channels).data,
          ![t].channels = rec_channels]
    /\ UNCHANGED rec_buffer
    /\ Goto(t, "stop_unlock")
    /\ Ev("stop_taken", t)
    /\ UNCHANGED <<rec_channels, rec_recording, rec_stream, rec_start_time,
                   rec_on_frames, sdVars, ret, cbVars, histVars>>

rec_stop_take(t) ==
    /\ pc[t] = "stop_lock"
    /\ rec_lock = "free"
    /\ rec_lock' = t
    /\ loc_result' = [loc_result EXCEPT
          ![t].data = IF rec_buffer = <<>>
                      THEN empty_array(rec_channels).data
                      ELSE concatenate(rec_buffer, rec_channels).data,
          ![t].channels = IF rec_buffer = <<>>
                          THEN empty_array(rec_channels).channels
                          ELSE concatenate(rec_buffer, rec_channels).channels]
    /\ rec_buffer' = <<>>
    /\ Goto(t, "stop_unlock")
    /\ Ev("stop_taken", t)
    /\ UNCHANGED <<rec_channels, rec_recording, rec_stream, rec_start_time,
                   rec_on_frames, sdVars, ret, cbVars, histVars>>

\* lines 223-233: leave the with-block, forget the start time, return
rec_stop_return(t) ==
    /\ pc[t] = "stop_unlock"
    /\ rec_lock = t
    /\ rec_lock' = "free"
    /\ rec_start_time' = FALSE
    /\ Return(t, StopReturn(loc_result[t], loc_result[t].fresh))
    /\ loc_result' = [loc_result EXCEPT ![t] = NoResult]
    /\ hFresh' = TRUE
    /\ Goto(t, "idle")
    /\ Ev("stop_return", t)
    /\ UNCHANGED <<rec_channels, rec_recording, rec_stream, rec_buffer,
                   rec_on_frames, sdVars, cbVars, hDelivered, hAppended,
                   hListener, hStartCount, hSession, hAttached>>

\* set_on_frames (367-372); a listener is "listener", no listener "none"
set_on_frames(t, callback) ==
    /\ pc[t] = "idle"
    /\ rec_on_frames' = callback
    /\ hAttached' = FALSE
    /\ Ev("set_on_frames", t)
    /\ UNCHANGED <<rec_channels, rec_recording, rec_stream, rec_buffer,
                   rec_lock, rec_start_time, sdVars, callerVars, cbVars,
                   hDelivered, hAppended, hListener, hStartCount, hSession,
                   hFresh>>

(***************************************************************************)
(* recorder.py: _audio_callback, on the PortAudio thread.                  *)
(***************************************************************************)
\* lines 260-264: a started stream delivers the next block; the callback
\* returns at once when the recorder is not recording
cb_enter(s) ==
    /\ cb_pc = "idle"
    /\ ~cb_crashed
    /\ s \in sd_live
    /\ sd_frames < MaxFrames
    /\ sd_frames' = sd_frames + 1
    /\ cb_chunk' = [stream |-> s, seq |-> sd_frames + 1]
    /\ IF ~rec_recording
       THEN /\ rec_ev' = [op |-> "cb_drop", t |-> "audio"]
            /\ UNCHANGED <<cb_pc, hDelivered>>
       ELSE /\ cb_pc' = "cb_lock"
            /\ hDelivered' = Append(hDelivered, cb_chunk')
            /\ rec_ev' = [op |-> "cb_enter", t |-> "audio"]
    /\ UNCHANGED <<rec_channels, recObj, sd_live, sd_opened, callerVars,
                   cb_crashed, hAppended, hListener, hStartCount, hSession,
                   hFresh, hAttached>>

\* lines 266-269: under the lock, copy the block and append it
cb_append ==
    /\ cb_pc = "cb_lock"
    /\ rec_lock = "free"
    /\ rec_lock' = "audio"
    /\ rec_buffer' = Append(rec_buffer, cb_chunk)
    /\ hAppended' = hAppended \cup {cb_chunk}
    /\ hAttached' = (rec_on_frames # "none")
    /\ cb_pc' = "cb_unlock"
    /\ rec_ev' = [op |-> "cb_append", t |-> "audio"]
    /\ UNCHANGED <<rec_channels, rec_recording, rec_stream, rec_start_time,
                   rec_on_frames, sdVars, callerVars, cb_chunk, cb_crashed,
                   hDelivered, hListener, hStartCount, hSession, hFresh>>

\* leaving the with-block
cb_unlock ==
    /\ cb_pc = "cb_unlock"
    /\ rec_lock = "audio"
    /\ rec_lock' = "free"
    /\ cb_pc' = "cb_check"
    /\ rec_ev' = [op |-> "cb_unlock", t |-> "audio"]
    /\ UNCHANGED <<rec_channels, rec_recording, rec_stream, rec_buffer,
                   rec_start_time, rec_on_frames, sdVars, callerVars,
                   cb_chunk, cb_crashed, histVars>>

\* line 271: the test of _on_frames
cb_check ==
    /\ cb_pc = "cb_check"
    /\ IF rec_on_frames = "none"
       THEN /\ cb_pc' = "idle"
            /\ rec_ev' = [op |-> "cb_done", t |-> "audio"]
       ELSE /\ cb_pc' = "cb_call"
            /\ rec_ev' = [op |-> "cb_check", t |-> "audio"]
    /\ UNCHANGED <<rec_channels, recObj, sdVars, callerVars, cb_chunk,
                   cb_crashed, histVars>>

\* lines 272-275: read _on_frames again and call it with the block; an
\* exception, that of the listener or the TypeError of calling None, is
\* caught and logged.  An exception leaving a PortAudio callback would stop
\* the stream.
cb_call(raises) ==
    /\ cb_pc = "cb_call"
    /\ cb_pc' = "idle"
    /\ rec_ev' = [op |-> "cb_done", t |-> "audio"]
    /\ LET called == rec_on_frames # "none"
           raised == IF called THEN raises ELSE TRUE
       IN  /\ hListener' =
                IF called
                THEN Append(hListener, [chunk |-> cb_chunk,
                                        locked |-> rec_lock = "audio",
                                        raised |-> raises])
                ELSE hListener
           /\ IF listener_error_propagates(raised)
              THEN /\ cb_crashed' = TRUE
                   /\ sd_live' = sd_live \ {cb_chunk.stream}
              ELSE UNCHANGED <<cb_crashed, sd_live>>
    /\ UNCHANGED <<rec_channels, recObj, sd_opened, sd_frames, callerVars,
                   cb_chunk, hDelivered, hAppended, hStartCount, hSession,
                   hFresh, hAttached>>

(***************************************************************************)
(* The recorder after construction, and its steps.                         *)
(***************************************************************************)
\* the recorder after AudioRecorder(channels=channels)
RecConstructed(channels) ==
    /\ rec_channels = channels
    /\ rec_recording = FALSE
    /\ rec_stream = 0
    /\ rec_buffer = <<>>
    /\ rec_lock = "free"
    /\ rec_start_time = FALSE
    /\ rec_on_frames = "none"
    /\ sd_live = {}
    /\ sd_opened = 0
    /\ sd_frames = 0
    /\ pc = [t \in Callers |-> "idle"]
    /\ loc_result = [t \in Callers |-> NoResult]
    /\ ret = [t \in Callers |-> NoReturn]
    /\ cb_pc = "idle"
    /\ cb_chunk = NoChunk
    /\ cb_crashed = FALSE
    /\ rec_ev = [op |-> "none", t |-> "none"]
    /\ hDelivered = <<>>
    /\ hAppended = {}
    /\ hListener = <<>>
    /\ hStartCount = 0
    /\ hSession = 0
    /\ hFresh = TRUE
    /\ hAttached = FALSE

RecInit == \E channels \in ChannelCounts : RecConstructed(channels)

\* the default of AudioRecorder.__init__
RecDefault == RecConstructed(CHANNELS)

\* the calls and steps of one calling thread
\* the other components stay as they are during a step of the recorder
RecFrame == UNCHANGED <<hkVars, vadVars, chVars, trVars, coVars, seVars,
                         apVars>>

RecCaller(t) ==
    \/ rec_start_check(t) /\ RecFrame
    \/ rec_start_locked(t) /\ RecFrame
    \/ rec_start_unlock(t) /\ RecFrame
    \/ \E how \in {"ok", "constructor", "start"} :
          rec_start_open(t, how) /\ RecFrame
    \/ rec_stop_check(t) /\ RecFrame
    \/ rec_stop_flag(t) /\ RecFrame
    \/ rec_stop_stream(t) /\ RecFrame
    \/ rec_stop_take(t) /\ RecFrame
    \/ rec_stop_return(t) /\ RecFrame
    \/ \E callback \in {"none", "listener"} :
          set_on_frames(t, callback) /\ RecFrame

\* the steps of the PortAudio thread
RecAudio ==
    \/ \E s \in sd_live : cb_enter(s) /\ RecFrame
    \/ cb_append /\ RecFrame
    \/ cb_unlock /\ RecFrame
    \/ cb_check /\ RecFrame
    \/ \E raises \in BOOLEAN : cb_call(raises) /\ RecFrame

(***************************************************************************)
(* chord.py as pure functions: one hotkey string is parsed, its display    *)
(* string is parsed again, and the chord is matched against sets of        *)
(* pressed keys.                                                           *)
(***************************************************************************)
\* the parts between "+" signs that the strings are made of
ChordParts == {"ctrl", "Control", "SHIFT", "a", "B", ";", "foo", ""}

ChordInputs == UNION {[1..n -> ChordParts] : n \in 1..MaxParts}

\* left and right control, left shift, A, B
ChordKeys == {162, 163, 160, 65, 66}

NoChord == [error |-> "none"]

IsChord(c) == c # NoChord /\ c # ParseError

\* parse_hotkey(ch_text)
ch_parse ==
    /\ ch_op = "init"
    /\ ch_chord' = parse_hotkey(ch_text)
    /\ ch_op' = "parse"
    /\ UNCHANGED <<ch_text, ch_reparse, ch_pressed, ch_match>>

\* parse_hotkey(chord.display)
ch_reparse_display ==
    /\ IsChord(ch_chord)
    /\ ch_reparse' = parse_hotkey(display(ch_chord))
    /\ ch_op' = "reparse"
    /\ ch_pressed' = {}
    /\ ch_match' = FALSE
    /\ UNCHANGED <<ch_text, ch_chord>>

\* chord.matches(pressed_set)
ch_matches(pressed_set) ==
    /\ IsChord(ch_chord)
    /\ ch_pressed' = pressed_set
    /\ ch_match' = matches(ch_chord, pressed_set)
    /\ ch_op' = "matches"
    /\ ch_reparse' = NoChord
    /\ UNCHANGED <<ch_text, ch_chord>>

ChGiven(text) ==
    /\ ch_text = text
    /\ ch_chord = NoChord
    /\ ch_reparse = NoChord
    /\ ch_pressed = {}
    /\ ch_match = FALSE
    /\ ch_op = "init"

ChInit == \E text \in ChordInputs : ChGiven(text)

ChDefault == ChGiven(ChordTextDefault)

ChFrame == UNCHANGED <<hkVars, vadVars, recVars, trVars, coVars, seVars,
                        apVars>>

ChNext ==
    \/ ch_parse /\ ChFrame
    \/ ch_reparse_display /\ ChFrame
    \/ \E pressed_set \in SUBSET ChordKeys : ch_matches(pressed_set) /\ ChFrame

(***************************************************************************)
(* The threads of the application (__main__.py) around the engine lock and *)
(* the audio-buffer lock: the keyboard listener thread, the tray thread    *)
(* (menu and settings callbacks) and the PortAudio callback thread.  The   *)
(* engine is the one of manager.py above; of the recorder only the flags   *)
(* and the lock matter here.                                               *)
(***************************************************************************)
\* listener2 is the thread of a second keyboard listener, created by a
\* start() that follows a stop()
Threads == {"listener", "listener2", "tray", "audio"}

\* keys, hotkey strings and paste windows used by the threads
ThreadKeys == {VK_LCONTROL, VK_OEM_1}

ThreadChordTexts == {ChordTextDefault}

ThreadPasteWindows == {5}

\* RegisterHotKey succeeds, or fails because the chord is registered
ThreadOsResults ==
    {OsOk, [ok |-> FALSE, error |-> ERROR_HOTKEY_ALREADY_REGISTERED]}

NoOp == [op |-> "none", key |-> 0]

Unlocked == [owner |-> "none", depth |-> 0]

\* the position of thread t becomes p
TrGoto(t, p) == tr_pc' = [tr_pc EXCEPT ![t] = p]

\* where a thread goes when a start or stop handler returns: back into the
\* key-event handler that dispatched it, or to rest
AfterHandler(t) == IF tr_engine_lock.owner = t THEN "unlock" ELSE "idle"

trAppState == <<tr_recording_active, tr_rec_recording, tr_stream>>

trLocks == <<tr_engine_lock, tr_audio_lock>>

\* _ListenerWrapper.stop: join(timeout=0.5) waiting for the thread to exit
join_returns_on_exit == tr_pc["listener"] = "idle"

\* _ListenerWrapper.stop: join(timeout=0.5) returns after half a second
join_returns == TRUE

\* pynput delivers a key event on the thread t of the running listener
listener_event(t, kind, k) ==
    /\ hk_listener
    /\ tr_listener = t
    /\ tr_pc[t] = "idle"
    /\ TrGoto(t, "lock_wait")
    /\ tr_op' = [tr_op EXCEPT ![t] = [op |-> kind, key |-> k]]
    /\ tr_actor' = t
    /\ UNCHANGED tr_listener
    /\ UNCHANGED <<hkVars, trLocks, trAppState>>

\* with self._lock: the thread enters the engine lock
acquire_engine_unowned(t) ==
    /\ tr_pc[t] = "lock_wait"
    /\ tr_engine_lock' = [owner |-> t, depth |-> tr_engine_lock.depth + 1]
    /\ TrGoto(t, "locked")
    /\ tr_actor' = t
    /\ UNCHANGED tr_listener
    /\ UNCHANGED <<hkVars, tr_op, tr_audio_lock, trAppState>>

acquire_engine(t) ==
    /\ tr_pc[t] = "lock_wait"
    /\ tr_engine_lock.owner \in {"none", t}
    /\ tr_engine_lock' = [owner |-> t, depth |-> tr_engine_lock.depth + 1]
    /\ TrGoto(t, "locked")
    /\ tr_actor' = t
    /\ UNCHANGED tr_listener
    /\ UNCHANGED <<hkVars, tr_op, tr_audio_lock, trAppState>>

\* the end of the with-block
release_engine(t) ==
    /\ tr_pc[t] = "unlock"
    /\ tr_engine_lock.owner = t
    /\ tr_engine_lock' = IF tr_engine_lock.depth = 1 THEN Unlocked
                         ELSE [owner |-> t, depth |-> tr_engine_lock.depth - 1]
    /\ TrGoto(t, "idle")
    /\ tr_op' = [tr_op EXCEPT ![t] = NoOp]
    /\ tr_actor' = t
    /\ UNCHANGED tr_listener
    /\ UNCHANGED <<hkVars, tr_audio_lock, trAppState>>

\* _on_press / _on_release inside the lock, up to the call of the handler
\* (toggle mode emits start and stop only)
listener_handle(t) ==
    /\ tr_pc[t] = "locked"
    /\ IF tr_op[t].op = "press"
       THEN on_press(tr_op[t].key, FALSE, FALSE)
       ELSE on_release(tr_op[t].key, FALSE, FALSE)
    /\ hk_op' = tr_op[t].op
    /\ hk_err' = "none"
    /\ RelStampNext
    /\ SigHistNext
    /\ TrGoto(t,
              CASE hk_disp'.signal = "start" -> "hs_begin"
                [] hk_disp'.signal = "stop" -> "hp_begin"
                [] OTHER -> "unlock")
    /\ tr_actor' = t
    /\ UNCHANGED tr_listener
    /\ UNCHANGED <<hkConfig, now, tr_op, trLocks, trAppState>>

\* _handle_record_start up to the call of AudioRecorder.start()
hs_begin(t) ==
    /\ tr_pc[t] = "hs_begin"
    /\ IF tr_recording_active
       THEN TrGoto(t, AfterHandler(t)) /\ UNCHANGED tr_recording_active
       ELSE TrGoto(t, "rs_check") /\ tr_recording_active' = TRUE
    /\ tr_actor' = t
    /\ UNCHANGED tr_listener
    /\ UNCHANGED <<hkVars, tr_op, trLocks, tr_rec_recording, tr_stream>>

\* AudioRecorder.start() up to its with-block: already recording, or the
\* device check, which may raise into the except clauses of the handler
rs_check(t, device_ok) ==
    /\ tr_pc[t] = "rs_check"
    /\ IF tr_rec_recording
       THEN TrGoto(t, AfterHandler(t)) /\ UNCHANGED tr_recording_active
       ELSE IF device_ok
       THEN TrGoto(t, "rs_lock_wait") /\ UNCHANGED tr_recording_active
       ELSE TrGoto(t, AfterHandler(t)) /\ tr_recording_active' = FALSE
    /\ tr_actor' = t
    /\ UNCHANGED tr_listener
    /\ UNCHANGED <<hkVars, tr_op, trLocks, tr_rec_recording, tr_stream>>

\* with self._lock of the recorder: enter, from position p to position q
acquire_audio(t, p, q) ==
    /\ tr_pc[t] = p
    /\ tr_audio_lock = "none"
    /\ tr_audio_lock' = t
    /\ TrGoto(t, q)
    /\ tr_actor' = t
    /\ UNCHANGED tr_listener
    /\ UNCHANGED <<hkVars, tr_op, tr_engine_lock, trAppState>>

\* AudioRecorder.start(): the with-block and its end
rs_locked(t) ==
    /\ tr_pc[t] = "rs_locked"
    /\ tr_rec_recording' = TRUE
    /\ tr_audio_lock' = "none"
    /\ TrGoto(t, "rs_open")
    /\ tr_actor' = t
    /\ UNCHANGED tr_listener
    /\ UNCHANGED <<hkVars, tr_op, tr_engine_lock, tr_recording_active,
                   tr_stream>>

\* AudioRecorder.start(): the stream is opened and started, or that fails
\* and the handler reports it
rs_open(t, stream_ok) ==
    /\ tr_pc[t] = "rs_open"
    /\ IF stream_ok
       THEN tr_stream' = TRUE /\ UNCHANGED <<tr_rec_recording, tr_recording_active>>
       ELSE /\ tr_rec_recording' = FALSE
            /\ tr_recording_active' = FALSE
            /\ UNCHANGED tr_stream
    /\ TrGoto(t, AfterHandler(t))
    /\ tr_actor' = t
    /\ UNCHANGED tr_listener
    /\ UNCHANGED <<hkVars, tr_op, trLocks>>

\* _handle_record_stop up to the stream teardown of AudioRecorder.stop()
hp_begin(t) ==
    /\ tr_pc[t] = "hp_begin"
    /\ IF ~tr_recording_active
       THEN TrGoto(t, AfterHandler(t))
            /\ UNCHANGED <<tr_recording_active, tr_rec_recording>>
       ELSE /\ tr_recording_active' = FALSE
            /\ IF ~tr_rec_recording
               THEN TrGoto(t, AfterHandler(t)) /\ UNCHANGED tr_rec_recording
               ELSE /\ tr_rec_recording' = FALSE
                    /\ TrGoto(t, IF tr_stream THEN "st_wait" ELSE "st_lock_wait")
    /\ tr_actor' = t
    /\ UNCHANGED tr_listener
    /\ UNCHANGED <<hkVars, tr_op, trLocks, tr_stream>>

\* AudioRecorder.stop(): stream.stop() returns once the callback has
\* finished, then stream.close()
st_wait(t) ==
    /\ tr_pc[t] = "st_wait"
    /\ tr_pc["audio"] = "idle"
    /\ tr_stream' = FALSE
    /\ TrGoto(t, "st_lock_wait")
    /\ tr_actor' = t
    /\ UNCHANGED tr_listener
    /\ UNCHANGED <<hkVars, tr_op, trLocks, tr_recording_active,
                   tr_rec_recording>>

\* AudioRecorder.stop(): the with-block that takes the buffer, and its end
st_locked(t) ==
    /\ tr_pc[t] = "st_locked"
    /\ tr_audio_lock' = "none"
    /\ TrGoto(t, AfterHandler(t))
    /\ tr_actor' = t
    /\ UNCHANGED tr_listener
    /\ UNCHANGED <<hkVars, tr_op, tr_engine_lock, trAppState>>

\* the tray thread: _menu_toggle_recording
menu_toggle_recording ==
    /\ tr_pc["tray"] = "idle"
    /\ TrGoto("tray", IF tr_recording_active THEN "hp_begin" ELSE "hs_begin")
    /\ tr_op' = [tr_op EXCEPT !["tray"] = [op |-> "menu_toggle", key |-> 0]]
    /\ tr_actor' = "tray"
    /\ UNCHANGED tr_listener
    /\ UNCHANGED <<hkVars, trLocks, trAppState>>

\* the tray thread calls set_paste_window_seconds, which takes no lock
tray_set_paste_window(d) ==
    /\ tr_pc["tray"] = "idle"
    /\ set_paste_window_seconds(d)
    /\ tr_actor' = "tray"
    /\ UNCHANGED tr_listener
    /\ UNCHANGED <<tr_pc, tr_op, trLocks, trAppState>>

\* the tray thread calls update_chord, start() or stop() of the engine
tray_call(name) ==
    /\ tr_pc["tray"] = "idle"
    /\ TrGoto("tray", "lock_wait")
    /\ tr_op' = [tr_op EXCEPT !["tray"] = [op |-> name, key |-> 0]]
    /\ tr_actor' = "tray"
    /\ UNCHANGED tr_listener
    /\ UNCHANGED <<hkVars, trLocks, trAppState>>

\* update_chord inside the lock
tray_update_chord(chord_text, code) ==
    /\ tr_pc["tray"] = "locked"
    /\ tr_op["tray"].op = "update_chord"
    /\ update_chord(chord_text, code)
    /\ TrGoto("tray", "unlock")
    /\ tr_actor' = "tray"
    /\ UNCHANGED tr_listener
    /\ UNCHANGED <<tr_op, trLocks, trAppState>>

\* start() inside the lock; a listener it creates runs on the thread
\* created
tray_engine_start(code1, code2, created) ==
    /\ tr_pc["tray"] = "locked"
    /\ tr_op["tray"].op = "start"
    /\ hk_start(code1, code2)
    /\ tr_listener' = IF hk_listener' /\ ~hk_listener THEN created
                      ELSE tr_listener
    /\ TrGoto("tray", "unlock")
    /\ tr_actor' = "tray"
    /\ UNCHANGED <<tr_op, trLocks, trAppState>>

\* stop() inside the lock: a running engine stops its listener and joins it
tray_engine_stop ==
    /\ tr_pc["tray"] = "locked"
    /\ tr_op["tray"].op = "stop"
    /\ TrGoto("tray", IF hk_running THEN "join" ELSE "unlock")
    /\ hk_stop
    /\ tr_actor' = "tray"
    /\ UNCHANGED tr_listener
    /\ UNCHANGED <<tr_op, trLocks, trAppState>>

\* _ListenerWrapper.stop: the join ends
tray_join ==
    /\ tr_pc["tray"] = "join"
    /\ join_returns
    /\ TrGoto("tray", "unlock")
    /\ tr_actor' = "tray"
    /\ UNCHANGED tr_listener
    /\ UNCHANGED <<hkVars, tr_op, trLocks, trAppState>>

\* PortAudio calls _audio_callback while the stream runs
cb_begin ==
    /\ tr_pc["audio"] = "idle"
    /\ tr_stream
    /\ tr_rec_recording
    /\ TrGoto("audio", "cb_lock_wait")
    /\ tr_actor' = "audio"
    /\ UNCHANGED tr_listener
    /\ UNCHANGED <<hkVars, tr_op, trLocks, trAppState>>

\* _audio_callback: the with-block that appends the chunk, and its end
cb_locked ==
    /\ tr_pc["audio"] = "cb_locked"
    /\ tr_audio_lock' = "none"
    /\ TrGoto("audio", "cb_notify")
    /\ tr_actor' = "audio"
    /\ UNCHANGED tr_listener
    /\ UNCHANGED <<hkVars, tr_op, tr_engine_lock, trAppState>>

\* _audio_callback: on_frames(chunk), that is _on_audio_chunk, and return
cb_notify ==
    /\ tr_pc["audio"] = "cb_notify"
    /\ TrGoto("audio", "idle")
    /\ tr_actor' = "audio"
    /\ UNCHANGED tr_listener
    /\ UNCHANGED <<hkVars, tr_op, trLocks, trAppState>>

TrInit ==
    /\ tr_pc = [t \in Threads |-> "idle"]
    /\ tr_op = [t \in Threads |-> NoOp]
    /\ tr_engine_lock = Unlocked
    /\ tr_audio_lock = "none"
    /\ tr_recording_active = FALSE
    /\ tr_rec_recording = FALSE
    /\ tr_stream = FALSE
    /\ tr_actor = "none"
    /\ tr_listener = "listener"

TrDefault == TrInit

TrFrame == UNCHANGED <<vadVars, recVars, chVars, coVars, seVars,
                        apVars>>

Handlers == {"listener", "tray"}

TrNext ==
    \/ \E kind \in {"press", "release"}, k \in ThreadKeys :
          listener_event("listener", kind, k) /\ TrFrame
    \/ \E t \in Handlers : acquire_engine(t) /\ TrFrame
    \/ \E t \in Handlers : release_engine(t) /\ TrFrame
    \/ listener_handle("listener") /\ TrFrame
    \/ \E t \in Handlers : hs_begin(t) /\ TrFrame
    \/ \E t \in Handlers, device_ok \in BOOLEAN : rs_check(t, device_ok) /\ TrFrame
    \/ \E t \in Handlers : acquire_audio(t, "rs_lock_wait", "rs_locked") /\ TrFrame
    \/ \E t \in Handlers : rs_locked(t) /\ TrFrame
    \/ \E t \in Handlers, stream_ok \in BOOLEAN : rs_open(t, stream_ok) /\ TrFrame
    \/ \E t \in Handlers : hp_begin(t) /\ TrFrame
    \/ \E t \in Handlers : st_wait(t) /\ TrFrame
    \/ \E t \in Handlers : acquire_audio(t, "st_lock_wait", "st_locked") /\ TrFrame
    \/ \E t \in Handlers : st_locked(t) /\ TrFrame
    \/ menu_toggle_recording /\ TrFrame
    \/ \E d \in ThreadPasteWindows : tray_set_paste_window(d) /\ TrFrame
    \/ \E name \in {"update_chord", "start", "stop"} : tray_call(name) /\ TrFrame
    \/ \E chord_text \in ThreadChordTexts :
          \E code \in ThreadOsResults :
             tray_update_chord(chord_text, code) /\ TrFrame
    \/ \E code1 \in ThreadOsResults :
          \E code2 \in (IF code1.ok THEN ThreadOsResults ELSE {OsOk}) :
             tray_engine_start(code1, code2, "listener") /\ TrFrame
    \/ tray_engine_stop /\ TrFrame
    \/ tray_join /\ TrFrame
    \/ cb_begin /\ TrFrame
    \/ acquire_audio("audio", "cb_lock_wait", "cb_locked") /\ TrFrame
    \/ cb_locked /\ TrFrame
    \/ cb_notify /\ TrFrame

(***************************************************************************)
(* The coordinator: AppRuntime's recording session and the audio-chunk     *)
(* handler that feeds the voice-activity detector.  The samples of a       *)
(* session are numbered from 0 in arrival order; an array of samples is    *)
(* the range [from, to) of these numbers.                                  *)
(***************************************************************************)

\* create_vad(sample_rate=16000): no detector attached, and a fresh one
NoVad == [attached |-> FALSE, has_speech |-> FALSE, silence_frames |-> 0]

created_vad == [attached |-> TRUE, has_speech |-> FALSE, silence_frames |-> 0]

\* np.array([], dtype=np.float32)
EmptyRange == [from |-> 0, to |-> 0]

\* array.size / len(array)
RangeLen(r) == r.to - r.from

\* __main__.py line 73: self._toggle_mode = True
toggle_mode == TRUE

\* what the microphone hears in a session: the samples with speech in them
SpeechSpans == {[from |-> 0, to |-> 0], [from |-> 0, to |-> 600],
                [from |-> 500, to |-> 1500], [from |-> 1000, to |-> 1100]}

\* webrtcvad's verdict on the frame that starts at sample start
is_speech_at(start) ==
    /\ start < co_speech.to
    /\ start + vad_frame_size > co_speech.from

\* VoiceActivityDetector.process_frame lines 112-125 on the detector v
vad_process_frame(v, is_speech) ==
    [attached |-> v.attached,
     has_speech |-> IF is_speech THEN TRUE ELSE v.has_speech,
     silence_frames |-> IF is_speech THEN 0 ELSE v.silence_frames + 1]

\* _on_audio_chunk lines 634-648: the while loop over data[idx:n], where
\* idx and n are sample numbers; fed lists the frames given to
\* process_frame by the sample they start at, reported tells whether
\* should_stop came back true, stop whether the loop left through the
\* branch of line 637
RECURSIVE feed_frames(_, _, _, _)
feed_frames(v, idx, n, stop_requested) ==
    IF idx + vad_frame_size > n
    THEN [vad |-> v, idx |-> idx, fed |-> <<>>, reported |-> FALSE,
          stop |-> FALSE]
    ELSE LET v1 == vad_process_frame(v, is_speech_at(idx))
             should_stop == should_stop_of(v1.has_speech, v1.silence_frames)
         IN  IF should_stop /\ ~stop_requested
             THEN [vad |-> v1, idx |-> idx, fed |-> <<idx>>,
                   reported |-> TRUE, stop |-> TRUE]
             ELSE LET r == feed_frames(v1, idx + vad_frame_size, n,
                                       stop_requested)
                  IN  [r EXCEPT !.fed = <<idx>> \o r.fed,
                                !.reported = should_stop \/ r.reported]

\* the session's record: nothing reported, stopped or handed over yet
NoLog == [should_stop |-> FALSE, stops |-> <<>>, threads |-> 0]

\* _handle_record_start: create_vad succeeds or raises (vad_ok), and
\* AudioRecorder.start() succeeds or raises (device_ok); speech is what the
\* microphone will hear
handle_record_start(vad_ok, device_ok, speech) ==
    /\ ~co_recording_active
    /\ IF vad_ok
       THEN /\ co_vad' = created_vad
            /\ co_vad_carry' = EmptyRange
            /\ co_vad_stop_requested' = FALSE
            /\ co_on_frames' = TRUE
       ELSE /\ co_vad' = NoVad
            /\ co_on_frames' = FALSE
            /\ UNCHANGED <<co_vad_carry, co_vad_stop_requested>>
    /\ co_recording_active' = device_ok
    /\ co_streaming' = device_ok
    /\ co_captured' = 0
    /\ co_speech' = speech
    /\ co_fed' = <<>>
    /\ co_log' = NoLog
    /\ UNCHANGED co_stop_threads

\* _on_audio_chunk on a chunk whose samples are [co_captured, captured1)
on_audio_chunk(captured1) ==
    IF ~co_vad.attached \/ ~co_recording_active
    THEN UNCHANGED <<co_vad, co_vad_carry, co_vad_stop_requested,
                     co_stop_threads, co_fed, co_log>>
    ELSE LET data == [from |-> IF RangeLen(co_vad_carry) > 0
                              THEN co_vad_carry.from ELSE co_captured,
                      to |-> captured1]
             r == feed_frames(co_vad, data.from, data.to,
                              co_vad_stop_requested)
             hand_over == r.stop /\ ~toggle_mode
         IN  /\ co_vad' = r.vad
             /\ co_vad_carry' = [from |-> r.idx, to |-> data.to]
             /\ co_vad_stop_requested' = (co_vad_stop_requested \/ hand_over)
             /\ co_stop_threads' = co_stop_threads + (IF hand_over THEN 1 ELSE 0)
             /\ co_fed' = co_fed \o r.fed
             /\ co_log' = [co_log EXCEPT
                              !.should_stop = @ \/ r.reported,
                              !.threads = @ + (IF hand_over THEN 1 ELSE 0)]

\* AudioRecorder._audio_callback on the PortAudio thread: a block of
\* BLOCKSIZE samples arrives and is given to the on_frames callback
audio_callback ==
    /\ co_streaming
    /\ co_captured + BLOCKSIZE <= MaxChunks * BLOCKSIZE
    /\ co_captured' = co_captured + BLOCKSIZE
    /\ IF co_on_frames
       THEN on_audio_chunk(co_captured + BLOCKSIZE)
       ELSE UNCHANGED <<co_vad, co_vad_carry, co_vad_stop_requested,
                        co_stop_threads, co_fed, co_log>>
    /\ UNCHANGED <<co_recording_active, co_on_frames, co_streaming, co_speech>>

\* who can run _handle_record_stop: the hotkey or the menu, and a stop
\* thread that _on_audio_chunk has started
StopCallers == {"user"} \cup (IF co_stop_threads > 0 THEN {"thread"} ELSE {})

\* _handle_record_stop run by the caller by
handle_record_stop(by) ==
    /\ by = "user" => co_recording_active
    /\ co_stop_threads' = co_stop_threads - (IF by = "thread" THEN 1 ELSE 0)
    /\ IF ~co_recording_active
       THEN UNCHANGED <<co_recording_active, co_on_frames, co_vad,
                        co_vad_carry, co_vad_stop_requested, co_streaming,
                        co_log>>
       ELSE /\ co_recording_active' = FALSE
            /\ co_on_frames' = FALSE
            /\ co_vad' = NoVad
            /\ co_vad_carry' = EmptyRange
            /\ co_vad_stop_requested' = FALSE
            /\ co_streaming' = FALSE
            /\ co_log' = [co_log EXCEPT !.stops = Append(@, by)]
    /\ UNCHANGED <<co_captured, co_speech, co_fed>>

\* AppRuntime.__init__ lines 60-62
CoInit ==
    /\ co_recording_active = FALSE
    /\ co_vad = NoVad
    /\ co_vad_carry = EmptyRange
    /\ co_vad_stop_requested = FALSE
    /\ co_on_frames = FALSE
    /\ co_streaming = FALSE
    /\ co_stop_threads = 0
    /\ co_captured = 0
    /\ co_speech = EmptyRange
    /\ co_fed = <<>>
    /\ co_log = NoLog

CoDefault == CoInit

CoFrame == UNCHANGED <<hkVars, vadVars, recVars, chVars, trVars, seVars,
                        apVars>>

\* the steps of the PortAudio thread
CoAudio == audio_callback /\ CoFrame

\* the steps of the stop threads
CoStopThread == "thread" \in StopCallers /\ handle_record_stop("thread") /\ CoFrame

CoNext ==
    \/ \E vad_ok \in BOOLEAN, device_ok \in BOOLEAN, speech \in SpeechSpans :
          handle_record_start(vad_ok, device_ok, speech) /\ CoFrame
    \/ audio_callback /\ CoFrame
    \/ \E by \in StopCallers : handle_record_stop(by) /\ CoFrame

(***************************************************************************)
(* Applying changed settings: AppRuntime._on_settings_applied, step by     *)
(* step on the thread of the settings window.                              *)
(***************************************************************************)

\* update_chord lines 108-114 with a HotkeyChord: _parse_and_validate does
\* not parse it again (197-201)
update_chord_object(c, code) ==
    /\ OsAllows(c, code)
    /\ IF ensure_hotkey_available(c, code) # "none"
       THEN /\ hk_err' = ensure_hotkey_available(c, code)
            /\ UNCHANGED <<hk_chord, hk_pressed, hk_active>>
       ELSE /\ hk_err' = "none"
            /\ hk_chord' = c
            /\ hk_pressed' = {}
            /\ hk_active' = FALSE
    /\ hk_op' = "update_chord"
    /\ hk_disp' = NoDispatch
    /\ UNCHANGED <<hk_running, hk_listener, hk_registered, hk_reg_combo,
                   hk_paste_window_seconds, hk_toggle_mode, platform,
                   hk_chord_down, hk_last_release_time, relStamp, sigHist, now>>

\* the settings handler moves on to position p, having made the call name
SeStep(name, p) ==
    /\ se_pc' = p
    /\ se_calls' = Append(se_calls, name)

\* AppRuntime.start line 184: self._hotkey.start() when the application
\* starts; a failure leaves the engine stopped
app_start(code1, code2) ==
    /\ se_pc = "init"
    /\ hk_start(code1, code2)
    /\ se_pc' = "idle"
    /\ UNCHANGED <<se_prev, se_new, se_calls, se_outcome>>

\* _on_settings_applied lines 272-274: the settings hold chord_text and
\* paste_window; the previous chord and paste window are remembered
settings_begin(chord_text, paste_window) ==
    /\ se_pc = "idle"
    /\ se_prev' = [chord |-> hk_chord, paste_window |-> hk_paste_window_seconds]
    /\ se_new' = [chord_text |-> chord_text, paste_window |-> paste_window]
    /\ se_pc' = "stop"
    /\ se_calls' = <<>>
    /\ se_outcome' = "none"
    /\ UNCHANGED hkVars

\* line 287: self._hotkey.stop()
settings_stop ==
    /\ se_pc = "stop"
    /\ hk_stop
    /\ SeStep("stop", "set_paste_window")
    /\ UNCHANGED <<se_prev, se_new, se_outcome>>

\* line 288: set_paste_window_seconds, or the except clauses
settings_set_paste_window ==
    /\ se_pc = "set_paste_window"
    /\ set_paste_window_seconds(se_new.paste_window)
    /\ SeStep("set_paste_window_seconds",
              IF hk_err' = "none" THEN "update_chord" ELSE "r_set_paste_window")
    /\ UNCHANGED <<se_prev, se_new, se_outcome>>

\* line 289: update_chord, or the except clauses
settings_update_chord(code) ==
    /\ se_pc = "update_chord"
    /\ update_chord(se_new.chord_text, code)
    /\ SeStep("update_chord",
              IF hk_err' = "none" THEN "start" ELSE "r_set_paste_window")
    /\ UNCHANGED <<se_prev, se_new, se_outcome>>

\* line 290: start(), or the except clauses
settings_start(code1, code2) ==
    /\ se_pc = "start"
    /\ hk_start(code1, code2)
    /\ SeStep("start", IF hk_err' = "none" THEN "idle" ELSE "r_set_paste_window")
    /\ se_outcome' = IF hk_err' = "none" THEN "applied" ELSE "none"
    /\ UNCHANGED <<se_prev, se_new>>

\* restore_previous_hotkey line 278
restore_set_paste_window ==
    /\ se_pc = "r_set_paste_window"
    /\ set_paste_window_seconds(se_prev.paste_window)
    /\ SeStep("restore set_paste_window_seconds",
              IF hk_err' = "none" THEN "r_update_chord" ELSE "idle")
    /\ se_outcome' = IF hk_err' = "none" THEN "none" ELSE "restore failed"
    /\ UNCHANGED <<se_prev, se_new>>

\* restore_previous_hotkey line 279, or its except clause (281-284)
restore_update_chord(code) ==
    /\ se_pc = "r_update_chord"
    /\ update_chord_object(se_prev.chord, code)
    /\ SeStep("restore update_chord",
              IF hk_err' = "none" THEN "r_start" ELSE "idle")
    /\ se_outcome' = IF hk_err' = "none" THEN "none" ELSE "restore failed"
    /\ UNCHANGED <<se_prev, se_new>>

\* restore_previous_hotkey line 280, or its except clause (281-284)
restore_start(code1, code2) ==
    /\ se_pc = "r_start"
    /\ hk_start(code1, code2)
    /\ SeStep("restore start", "idle")
    /\ se_outcome' = IF hk_err' = "none" THEN "restored" ELSE "restore failed"
    /\ UNCHANGED <<se_prev, se_new>>

NoSettings == [chord_text |-> <<>>, paste_window |-> 0]

SeInit ==
    /\ se_pc = "init"
    /\ se_prev = [chord |-> ParseError, paste_window |-> 0]
    /\ se_new = NoSettings
    /\ se_calls = <<>>
    /\ se_outcome = "none"

SeDefault == SeInit

SeFrame == UNCHANGED <<vadVars, recVars, chVars, trVars, coVars, apVars>>

SeNext ==
    \/ \E code1 \in OsResultsHere :
          \E code2 \in (IF code1.ok THEN OsResultsHere ELSE {OsOk}) :
             app_start(code1, code2) /\ SeFrame
    \/ \E chord_text \in ChordTexts, paste_window \in PasteWindowInputs :
          settings_begin(chord_text, paste_window) /\ SeFrame
    \/ settings_stop /\ SeFrame
    \/ settings_set_paste_window /\ SeFrame
    \/ \E code \in (IF parse_hotkey(se_new.chord_text) = ParseError THEN {OsOk}
                    ELSE OsResultsHere) :
          settings_update_chord(code) /\ SeFrame
    \/ \E code1 \in OsResultsHere :
          \E code2 \in (IF code1.ok THEN OsResultsHere ELSE {OsOk}) :
             settings_start(code1, code2) /\ SeFrame
    \/ restore_set_paste_window /\ SeFrame
    \/ \E code \in OsResultsHere : restore_update_chord(code) /\ SeFrame
    \/ \E code1 \in OsResultsHere :
          \E code2 \in (IF code1.ok THEN OsResultsHere ELSE {OsOk}) :
             restore_start(code1, code2) /\ SeFrame

(***************************************************************************)
(* __main__.py: the recording handlers, one step per span of code between  *)
(* two points where another thread can run.  AudioRecorder.start() and     *)
(* stop() are the steps of the recorder above.                             *)
(***************************************************************************)
NoAudioBuffer == [set |-> FALSE, data |-> <<>>]

ApNoLog == [stop_calls |-> 0, scheduled |-> 0, fired |-> 0,
            transcribed |-> <<>>]

\* line 415: duration < 0.1; the shortest audio that is transcribed is one
\* block here
MinSamples == BlockSamples

too_short(data) == Len(data) < MinSamples

ApGoto(t, label) == ap_pc' = [ap_pc EXCEPT ![t] = label]

\* _handle_record_start, lines 343-356: the test of _recording_active, the
\* flag, the timers cancelled, the listener attached.  A session is begun
\* while no other handler runs.
ap_start_begin(t) ==
    /\ \A u \in Callers : ap_pc[u] = "idle"
    /\ ~ap_recording_active
    /\ sd_opened < MaxStreams
    /\ ap_recording_active' = TRUE
    /\ ap_timers' = 0
    /\ ap_log' = ApNoLog
    /\ set_on_frames(t, "listener")
    /\ ApGoto(t, "start_call")
    /\ UNCHANGED ap_audio_buffer

\* line 366: self._audio_recorder.start(), on a machine whose microphone
\* works
ap_start_call(t) ==
    /\ ap_pc[t] = "start_call"
    /\ \/ /\ rec_start_check(t)
          /\ ret'[t].outcome \in {"noop", "pending"}
          /\ pc'[t] # "start_degraded"
          /\ ~ret'[t].no_default /\ ~ret'[t].few_channels
       \/ rec_start_locked(t)
       \/ rec_start_unlock(t)
       \/ rec_start_open(t, "ok")
    /\ ApGoto(t, IF pc'[t] = "idle" THEN "idle" ELSE "start_call")
    /\ UNCHANGED <<ap_recording_active, ap_audio_buffer, ap_timers, ap_log>>

\* _handle_record_stop, lines 385-386: the test of _recording_active
ap_stop_begin(t) ==
    /\ ap_pc[t] = "idle"
    /\ ap_recording_active
    /\ ApGoto(t, "stop_clear")
    /\ UNCHANGED <<recVars, ap_recording_active, ap_audio_buffer, ap_timers,
                   ap_log>>

\* lines 388-397: the flag is lowered and the listener detached
ap_stop_clear(t) ==
    /\ ap_pc[t] = "stop_clear"
    /\ ap_recording_active' = FALSE
    /\ set_on_frames(t, "none")
    /\ ApGoto(t, "stop_call")
    /\ UNCHANGED <<ap_audio_buffer, ap_timers, ap_log>>

\* line 404, right-hand side: self._audio_recorder.stop()
ap_stop_call(t) ==
    /\ ap_pc[t] = "stop_call"
    /\ \/ rec_stop_check(t)
       \/ rec_stop_flag(t)
       \/ rec_stop_stream(t)
       \/ rec_stop_take(t)
       \/ rec_stop_return(t)
    /\ ApGoto(t, IF pc'[t] = "idle" THEN "stop_assign" ELSE "stop_call")
    /\ ap_log' = [ap_log EXCEPT
          !.stop_calls = @ + (IF pc[t] = "idle" THEN 1 ELSE 0)]
    /\ UNCHANGED <<ap_recording_active, ap_audio_buffer, ap_timers>>

\* line 404, the assignment to self._audio_buffer
ap_stop_assign(t) ==
    /\ ap_pc[t] = "stop_assign"
    /\ ap_audio_buffer' = [set |-> TRUE, data |-> ret[t].data]
    /\ ApGoto(t, "stop_decide")
    /\ UNCHANGED <<recVars, ap_recording_active, ap_timers, ap_log>>

\* lines 406-431: the duration of self._audio_buffer; too short, a warning
\* and no transcription; otherwise a timer is started that will call
\* _complete_transcription
ap_stop_decide(t) ==
    /\ ap_pc[t] = "stop_decide"
    /\ IF too_short(ap_audio_buffer.data)
       THEN UNCHANGED <<ap_timers, ap_log>>
       ELSE /\ ap_timers' = ap_timers + 1
            /\ ap_log' = [ap_log EXCEPT !.scheduled = @ + 1]
    /\ ApGoto(t, "idle")
    /\ UNCHANGED <<recVars, ap_recording_active, ap_audio_buffer>>

\* _complete_transcription (441-456), on the timer's thread: it transcribes
\* what self._audio_buffer holds when it runs
complete_transcription ==
    /\ ap_timers > 0
    /\ ap_timers' = ap_timers - 1
    /\ ap_log' = [ap_log EXCEPT !.fired = @ + 1,
                                !.transcribed = ap_audio_buffer.data]
    /\ UNCHANGED <<recVars, ap_pc, ap_recording_active, ap_audio_buffer>>

\* AppRuntime.__init__, lines 55-65
ApInit ==
    /\ ap_pc = [t \in Callers |-> "idle"]
    /\ ap_recording_active = FALSE
    /\ ap_audio_buffer = NoAudioBuffer
    /\ ap_timers = 0
    /\ ap_log = ApNoLog

ApDefault == ApInit

ApFrame == UNCHANGED <<hkVars, vadVars, chVars, trVars, coVars, seVars>>

\* a thread that stops recordings: the listener thread on a chord press, the
\* tray thread on the menu's toggle
ApStopper(t) ==
    \/ ap_stop_begin(t) /\ ApFrame
    \/ ap_stop_clear(t) /\ ApFrame
    \/ ap_stop_call(t) /\ ApFrame
    \/ ap_stop_assign(t) /\ ApFrame
    \/ ap_stop_decide(t) /\ ApFrame

ApStarter(t) ==
    \/ ap_start_begin(t) /\ ApFrame
    \/ ap_start_call(t) /\ ApFrame

(***************************************************************************)
(* The specifications: each component on its own, the others at rest.      *)
(***************************************************************************)
InitHotkey == HkInit /\ VadDefault /\ RecDefault /\ ChDefault /\ TrDefault /\ CoDefault /\ SeDefault /\ ApDefault

NextHotkey == HkNext

SpecHotkey == InitHotkey /\ [][NextHotkey]_vars

InitVad == VadInit /\ HkInit /\ ~hk_toggle_mode /\ platform = "win32"
              /\ RecDefault /\ ChDefault /\ TrDefault /\ CoDefault /\ SeDefault /\ ApDefault

NextVad == VadNext

SpecVad == InitVad /\ [][NextVad]_vars

\* the recorder used by one calling thread, with the PortAudio thread
InitRecorder == RecInit /\ HkInit /\ ~hk_toggle_mode /\ platform = "win32"
                   /\ VadDefault /\ ChDefault /\ TrDefault /\ CoDefault /\ SeDefault /\ ApDefault

NextRecorder == RecCaller("c1") \/ RecAudio

SpecRecorder == InitRecorder /\ [][NextRecorder]_vars

InitChord == ChInit /\ HkInit /\ ~hk_toggle_mode /\ platform = "win32"
                /\ VadDefault /\ RecDefault /\ TrDefault /\ CoDefault /\ SeDefault /\ ApDefault

NextChord == ChNext

SpecChord == InitChord /\ [][NextChord]_vars

\* the application: AppRuntime builds the engine in toggle mode
InitThreads == TrInit /\ HkInit /\ hk_toggle_mode /\ platform = "win32"
                  /\ VadDefault /\ RecDefault /\ ChDefault /\ CoDefault
                  /\ SeDefault /\ ApDefault

NextThreads == TrNext

SpecThreads == InitThreads /\ [][NextThreads]_vars

\* the application with the threads of two keyboard listeners: a start()
\* after a stop() creates a listener on a thread that handles no event,
\* while the thread of the stopped listener may still handle one
Listeners == {"listener", "listener2"}

Dispatchers == Listeners \cup {"tray"}

NextDispatch ==
    \/ \E t \in Listeners, kind \in {"press", "release"}, k \in ThreadKeys :
          listener_event(t, kind, k) /\ TrFrame
    \/ \E t \in Dispatchers : acquire_engine(t) /\ TrFrame
    \/ \E t \in Dispatchers : release_engine(t) /\ TrFrame
    \/ \E t \in Listeners : listener_handle(t) /\ TrFrame
    \/ \E t \in Listeners : hs_begin(t) /\ TrFrame
    \/ \E t \in Listeners, device_ok \in BOOLEAN :
          rs_check(t, device_ok) /\ TrFrame
    \/ \E t \in Listeners :
          acquire_audio(t, "rs_lock_wait", "rs_locked") /\ TrFrame
    \/ \E t \in Listeners : rs_locked(t) /\ TrFrame
    \/ \E t \in Listeners, stream_ok \in BOOLEAN :
          rs_open(t, stream_ok) /\ TrFrame
    \/ \E t \in Listeners : hp_begin(t) /\ TrFrame
    \/ \E t \in Listeners : st_wait(t) /\ TrFrame
    \/ \E t \in Listeners :
          acquire_audio(t, "st_lock_wait", "st_locked") /\ TrFrame
    \/ \E t \in Listeners : st_locked(t) /\ TrFrame
    \/ \E name \in {"start", "stop"} : tray_call(name) /\ TrFrame
    \/ \E code1 \in ThreadOsResults :
          \E code2 \in (IF code1.ok THEN ThreadOsResults ELSE {OsOk}) :
             \E t \in {u \in Listeners : tr_pc[u] = "idle"} :
                tray_engine_start(code1, code2, t) /\ TrFrame
    \/ tray_engine_stop /\ TrFrame
    \/ tray_join /\ TrFrame
    \/ cb_begin /\ TrFrame
    \/ acquire_audio("audio", "cb_lock_wait", "cb_locked") /\ TrFrame
    \/ cb_locked /\ TrFrame
    \/ cb_notify /\ TrFrame

SpecDispatch == InitThreads /\ [][NextDispatch]_vars

\* the coordinator with the detector create_vad builds at 16 kHz
InitCoordinator == CoInit /\ HkInit /\ hk_toggle_mode /\ platform = "win32"
                      /\ VadDefault /\ RecDefault /\ ChDefault /\ TrDefault
                      /\ SeDefault /\ ApDefault

NextCoordinator == CoNext

SpecCoordinator == InitCoordinator /\ [][NextCoordinator]_vars

\* two threads call the recorder of the application at the same time
InitRecorderConcurrent ==
    RecDefault /\ HkInit /\ hk_toggle_mode /\ platform = "win32"
       /\ VadDefault /\ ChDefault /\ TrDefault /\ CoDefault /\ SeDefault /\ ApDefault

\* start() called by thread t on a machine whose microphone works: the
\* device check passes and the stream opens
RecStartHealthy(t) ==
    \/ /\ rec_start_check(t)
       /\ ret'[t].outcome \in {"noop", "pending"}
       /\ pc'[t] # "start_degraded"
       /\ ~ret'[t].no_default /\ ~ret'[t].few_channels
       /\ RecFrame
    \/ rec_start_locked(t) /\ RecFrame
    \/ rec_start_unlock(t) /\ RecFrame
    \/ rec_start_open(t, "ok") /\ RecFrame

\* stop() called by thread t
RecStop(t) ==
    \/ rec_stop_check(t) /\ RecFrame
    \/ rec_stop_flag(t) /\ RecFrame
    \/ rec_stop_stream(t) /\ RecFrame
    \/ rec_stop_take(t) /\ RecFrame
    \/ rec_stop_return(t) /\ RecFrame

\* get_buffer_duration (235-246): under the lock, the number of rows in
\* the buffer (the caller divides it by the sample rate)
DurationReturn(total_samples) ==
    [op |-> "get_buffer_duration", outcome |-> "returned", data |-> <<>>,
     channels |-> 0, no_default |-> FALSE, few_channels |-> FALSE,
     fresh |-> FALSE, total_samples |-> total_samples]

rec_duration_read(t) ==
    /\ pc[t] = "idle"
    /\ rec_lock = "free"
    /\ rec_lock' = t
    /\ Return(t, DurationReturn(IF rec_buffer = <<>> THEN 0
                                ELSE Len(rec_buffer) * BlockSamples))
    /\ Goto(t, "duration_unlock")
    /\ Ev("duration_read", t)
    /\ UNCHANGED <<rec_channels, rec_recording, rec_stream, rec_buffer,
                   rec_start_time, rec_on_frames, sdVars, loc_result,
                   cbVars, histVars>>

rec_duration_return(t) ==
    /\ pc[t] = "duration_unlock"
    /\ rec_lock = t
    /\ rec_lock' = "free"
    /\ Goto(t, "idle")
    /\ Ev("duration_return", t)
    /\ UNCHANGED <<rec_channels, rec_recording, rec_stream, rec_buffer,
                   rec_start_time, rec_on_frames, sdVars, loc_result, ret,
                   cbVars, histVars>>

RecDuration(t) ==
    \/ rec_duration_read(t) /\ RecFrame
    \/ rec_duration_return(t) /\ RecFrame

\* the PortAudio thread while no listener is attached
RecAudioPlain ==
    \/ \E s \in sd_live : cb_enter(s) /\ RecFrame
    \/ cb_append /\ RecFrame
    \/ cb_unlock /\ RecFrame
    \/ cb_check /\ RecFrame

\* one thread starts and stops the recorder while another calls stop() and
\* get_buffer_duration()
NextConcurrentStop ==
    RecStartHealthy("c1") \/ RecStop("c1") \/ RecStop("c2")
       \/ RecDuration("c2") \/ RecAudioPlain

SpecConcurrentStop == InitRecorderConcurrent /\ [][NextConcurrentStop]_vars

\* two threads call start(), and one of them calls stop()
NextConcurrentStart ==
    RecStartHealthy("c1") \/ RecStartHealthy("c2") \/ RecStop("c1")
       \/ RecAudioPlain

SpecConcurrentStart == InitRecorderConcurrent /\ [][NextConcurrentStart]_vars


\* two threads run the recording handlers of the application: c1 is the
\* listener thread, c2 the tray thread
InitRecordStop ==
    ApInit /\ RecDefault /\ HkInit /\ hk_toggle_mode /\ platform = "win32"
       /\ VadDefault /\ ChDefault /\ TrDefault /\ CoDefault /\ SeDefault

NextRecordStop ==
    \/ ApStarter("c1") \/ ApStopper("c1") \/ ApStopper("c2")
    \/ complete_transcription /\ ApFrame
    \/ RecAudio

SpecRecordStop == InitRecordStop /\ [][NextRecordStop]_vars

\* the settings window applies settings to the engine of the application
InitSettings == SeInit /\ HkInit /\ hk_toggle_mode
                   /\ VadDefault /\ RecDefault /\ ChDefault /\ TrDefault
                   /\ CoDefault /\ ApDefault

NextSettings == SeNext

SpecSettings == InitSettings /\ [][NextSettings]_vars

\* PortAudio goes on delivering blocks while the stream is open, and a
\* thread that was started runs; the user owes no event
SpecCoordinatorFair ==
    /\ InitCoordinator
    /\ [][NextCoordinator]_vars
    /\ WF_vars(CoAudio)
    /\ WF_vars(CoStopThread)


(***************************************************************************)
(* Claims about the hotkey engine.                                         *)
(***************************************************************************)
ChordSatisfied == matches(hk_chord, hk_pressed)

\* a key-down at which the pressed-key set comes to satisfy the chord
PressEdge == hk_op' = "press" /\ ~ChordSatisfied /\ ChordSatisfied'

\* a key-up at which the pressed-key set stops satisfying the chord
ReleaseEdge == hk_op' = "release" /\ ChordSatisfied /\ ~ChordSatisfied'

\* a key event during which the chord stays satisfied
KeyEventWhileSatisfied ==
    hk_op' \in {"press", "release"} /\ ChordSatisfied /\ ChordSatisfied'

\* C1: in hold/release mode, from Idle with no release so far, the key-down
\* that satisfies the chord emits exactly start, and the key-up that ends
\* the satisfaction of the chord during that hold emits exactly stop; the
\* next chord press emits exactly replay when it comes at most
\* paste_window_seconds after that release, and exactly start when it comes
\* later
C1_HoldStartStopReplay ==
    [][~hk_toggle_mode =>
        /\ (PressEdge /\ ~hk_active /\ relStamp.state = "none")
              => hk_disp'.signal = "start"
        /\ (ReleaseEdge /\ hk_active)
              => hk_disp'.signal = "stop"
        /\ (PressEdge /\ relStamp.state = "pending"
              /\ now - relStamp.at <= hk_paste_window_seconds)
              => hk_disp'.signal = "replay"
        /\ (PressEdge /\ relStamp.state = "pending"
              /\ now - relStamp.at > hk_paste_window_seconds)
              => hk_disp'.signal = "start"]_vars

\* C1 witness: a hold was started and stopped, and the chord press that
\* followed the release has just emitted replay
C1_Witness ==
    /\ ~hk_toggle_mode
    /\ hk_op = "press"
    /\ relStamp.state = "used"
    /\ hk_disp.signal = "replay"
    /\ now - relStamp.at = hk_paste_window_seconds

\* C2: in toggle mode, from Idle, the key-down that satisfies the chord
\* emits exactly start; while the utterance is in progress a key event that
\* leaves the chord satisfied, and the release of the chord, emit nothing;
\* the next key-down that satisfies the chord again emits exactly stop and
\* returns the engine to Idle
C2_ToggleStartStop ==
    [][hk_toggle_mode =>
        /\ (PressEdge /\ ~hk_active)
              => (hk_disp'.signal = "start" /\ hk_active')
        /\ (KeyEventWhileSatisfied /\ hk_active)
              => (hk_disp' = NoDispatch /\ hk_active')
        /\ (ReleaseEdge /\ hk_active)
              => (hk_disp' = NoDispatch /\ hk_active')
        /\ (PressEdge /\ hk_active)
              => (hk_disp'.signal = "stop" /\ ~hk_active')]_vars


(***************************************************************************)
(* Claims about the voice-activity detector.                               *)
(***************************************************************************)
\* some frame of h was classified as speech
SpeechSeen(h) == \E i \in DOMAIN h : h[i]

\* the number of consecutive silence frames that end h
RECURSIVE TrailingSilence(_)
TrailingSilence(h) ==
    IF h = <<>> \/ h[Len(h)] THEN 0
    ELSE 1 + TrailingSilence(SubSeq(h, 1, Len(h) - 1))

\* C3: after any sequence of correctly sized frames since construction or
\* reset(), process_frame returns should_stop exactly when some frame so far
\* was speech and the run of silence frames ending at this frame is at least
\* trailing_silence_ms \div frame_duration_ms long; the silence count is
\* the length of that run
C3_ShouldStopExactly ==
    vad_out.kind = "result" =>
        /\ vad_out.should_stop =
              (SpeechSeen(vad_hist)
               /\ TrailingSilence(vad_hist) >=
                     vad_trailing_silence_ms \div vad_frame_duration_ms)
        /\ vad_silence_frames = TrailingSilence(vad_hist)
        /\ (~SpeechSeen(vad_hist) => ~vad_out.should_stop)

\* C3 witness: speech, then as many silence frames as the threshold asks
C3_Witness ==
    /\ vad_out.kind = "result"
    /\ vad_out.should_stop
    /\ vad_silence_threshold >= 2
    /\ TrailingSilence(vad_hist) = vad_silence_threshold

\* h is n silence frames, one speech frame and j silence frames
SilenceSpeechSilence(h, n, j) ==
    /\ Len(h) = n + 1 + j
    /\ \A i \in DOMAIN h : h[i] = (i = n + 1)

CeilFrames == (vad_trailing_silence_ms + vad_frame_duration_ms - 1)
                  \div vad_frame_duration_ms

FloorFrames == vad_trailing_silence_ms \div vad_frame_duration_ms

\* C4 as stated: for N silence frames, one speech frame and then
\* ceil(trailing_silence_ms / frame_duration_ms) silence frames, should_stop
\* is false on every frame before the last silence frame and true on it
C4_CeilStated ==
    (vad_out.kind = "result" /\ CeilFrames >= 1) =>
        /\ ~SpeechSeen(vad_hist) => ~vad_out.should_stop
        /\ \A n \in 0..MaxVadFrames, j \in 0..MaxVadFrames :
              (SilenceSpeechSilence(vad_hist, n, j) /\ j <= CeilFrames)
                  => (vad_out.should_stop = (j = CeilFrames))

\* C4 amended: the same with floor(trailing_silence_ms / frame_duration_ms)
\* silence frames, when that is at least one frame
C4_FloorAmended ==
    (vad_out.kind = "result" /\ FloorFrames >= 1) =>
        /\ ~SpeechSeen(vad_hist) => ~vad_out.should_stop
        /\ \A n \in 0..MaxVadFrames, j \in 0..MaxVadFrames :
              (SilenceSpeechSilence(vad_hist, n, j) /\ j <= FloorFrames)
                  => (vad_out.should_stop = (j = FloorFrames))

\* C4 witness: a trailing silence that is no multiple of the frame
\* duration, and the stop on the last of the floor(...) silence frames
C4_Witness ==
    /\ vad_out.kind = "result"
    /\ vad_out.should_stop
    /\ FloorFrames >= 2
    /\ FloorFrames # CeilFrames
    /\ SilenceSpeechSilence(vad_hist, 1, FloorFrames)

(***************************************************************************)
(* Claims about the audio recorder.                                        *)
(***************************************************************************)
\* the step taken last is the return of stop() to thread t
StopReturnedTo(t) == rec_ev = [op |-> "stop_return", t |-> t]

\* the step taken last is the return of start() to thread t, or its raise
StartReturnedTo(t) ==
    /\ rec_ev.t = t
    /\ rec_ev.op \in {"start_noop", "start_raise_device", "start_degraded",
                      "start_ok", "start_raise_capture"}

\* data is the rows of the blocks, block after block, each block once
IsConcatenationOf(data, blocks) ==
    /\ Len(data) = Len(blocks) * BlockSamples
    /\ \A k \in 1..Len(data) :
          LET b == blocks[((k - 1) \div BlockSamples) + 1]
          IN  data[k] = [stream |-> b.stream, seq |-> b.seq,
                         row |-> ((k - 1) % BlockSamples) + 1]

C7_StopAlwaysSafe ==
    \A t \in Callers :
        (StopReturnedTo(t) /\ ret[t].fresh) =>
            /\ ret[t].outcome = "returned"
            /\ ret[t].data = <<>>
            /\ ret[t].channels = rec_channels
            /\ ~rec_recording
            /\ rec_stream = 0
            /\ rec_buffer = <<>>

\* the part of C7 about the value returned and the recording flag
C7_StopReturnsEmpty ==
    \A t \in Callers :
        (StopReturnedTo(t) /\ ret[t].fresh) =>
            /\ ret[t].outcome = "returned"
            /\ ret[t].data = <<>>
            /\ ret[t].channels = rec_channels
            /\ ~rec_recording
            /\ rec_buffer = <<>>

\* thread t calls start() in this step
StartCalledBy(t) ==
    /\ pc[t] = "idle"
    /\ rec_ev'.t = t
    /\ rec_ev'.op \in {"start_noop", "start_raise_device", "start_check"}
    /\ ret'[t].op = "start"

\* C8: start() called while the recorder is recording returns at once and
\* changes nothing: no stream is constructed, the recorder stays recording
\* on the stream it had, and the buffer keeps its blocks.
C8_StartWhileRecordingNoop ==
    [][\A t \in Callers :
          (StartCalledBy(t) /\ rec_recording) =>
              /\ ret'[t].outcome = "noop"
              /\ pc'[t] = "idle"
              /\ rec_recording'
              /\ rec_stream' = rec_stream
              /\ rec_buffer' = rec_buffer
              /\ sd_opened' = sd_opened
              /\ sd_live' = sd_live]_vars

\* start() has returned as a no-op with a stream running and a block
\* buffered
C8_Witness ==
    /\ rec_ev = [op |-> "start_noop", t |-> "c1"]
    /\ ret["c1"].outcome = "noop"
    /\ rec_stream # 0
    /\ rec_stream \in sd_live
    /\ rec_buffer # <<>>

\* C9: start() raises AudioDeviceError whenever there is no default input
\* device or the device has fewer channels than requested, and raises
\* AudioCaptureError when the stream cannot be opened for another reason;
\* after either the recorder is not recording.
C9_StartFailures ==
    \A t \in Callers :
        (StartReturnedTo(t) /\ ret[t].outcome # "noop") =>
            /\ (ret[t].no_default \/ ret[t].few_channels)
                  => ret[t].outcome = "AudioDeviceError"
            /\ rec_ev.op = "start_raise_capture"
                  => ret[t].outcome = "AudioCaptureError"
            /\ ret[t].outcome \in {"AudioDeviceError", "AudioCaptureError"}
                  => ~rec_recording

\* the part of C9 that does not depend on the device check: a failure of
\* the stream raises AudioCaptureError, and after any raise the recorder is
\* not recording
C9_AfterFailureNotRecording ==
    \A t \in Callers :
        (StartReturnedTo(t) /\ ret[t].outcome # "noop") =>
            /\ rec_ev.op = "start_raise_capture"
                  => ret[t].outcome = "AudioCaptureError"
            /\ ret[t].outcome \in {"AudioDeviceError", "AudioCaptureError"}
                  => ~rec_recording

\* C10: the listener is called only with blocks already appended, never
\* while the callback holds the lock, at most once per block, and once for
\* a block during whose callback a listener stayed attached; no exception
\* leaves the callback, the stream of a block whose listener raised is
\* still started when the callback returns, and every block delivered while
\* recording is appended.
C10_ListenerAfterAppend ==
    /\ ~cb_crashed
    /\ \A i \in DOMAIN hListener :
          /\ hListener[i].chunk \in hAppended
          /\ ~hListener[i].locked
    /\ \A i, j \in DOMAIN hListener :
          hListener[i].chunk = hListener[j].chunk => i = j
    /\ (rec_ev.op = "cb_done" /\ hAttached) =>
          \E i \in DOMAIN hListener : hListener[i].chunk = cb_chunk
    /\ (rec_ev.op = "cb_done" /\ cb_chunk \in hAppended) =>
          cb_chunk.stream \in sd_live
    /\ cb_pc \in {"idle", "cb_unlock", "cb_check", "cb_call"} =>
          \A i \in DOMAIN hDelivered : hDelivered[i] \in hAppended

\* the listener raised for one block, and a later block of the same stream
\* was appended and passed to the listener
C10_Witness ==
    \E i, j \in DOMAIN hListener :
        /\ i < j
        /\ hListener[i].raised
        /\ hListener[j].chunk.stream = hListener[i].chunk.stream
        /\ hListener[j].chunk \in hAppended
        /\ hListener[j].chunk \in Range(rec_buffer)

(***************************************************************************)
(* Claims about the configuration and the errors of the hotkey engine.     *)
(***************************************************************************)
\* C11: set_paste_window_seconds(d) raises ValueError for every d outside
\* [0, 5] and then leaves the paste window as it was, and stores d for
\* every d inside; so the paste window of the engine is always in [0, 5].
C11_PasteWindowValidated ==
    /\ [](0 <= hk_paste_window_seconds /\ hk_paste_window_seconds <= 5)
    /\ [][\A d \in PasteWindowInputs :
             set_paste_window_seconds(d) =>
                IF d < 0 \/ d > 5
                THEN /\ hk_err' = "ValueError"
                     /\ hk_paste_window_seconds' = hk_paste_window_seconds
                ELSE /\ hk_err' = "none"
                     /\ hk_paste_window_seconds' = d]_vars

\* a call was rejected after an earlier call had changed the paste window
C11_Witness ==
    /\ hk_op = "set_paste_window"
    /\ hk_err = "ValueError"
    /\ hk_paste_window_seconds = 5

\* C12: when update_chord(text) fails, because the text does not parse or
\* because the chord is not available, the call raises the error to its
\* caller and the chord, the pressed keys, the interaction state and the
\* last release time are as before the call; no signal is emitted.
C12_FailedUpdateChordKeepsState ==
    [][(hk_op' = "update_chord" /\ hk_err' # "none") =>
          /\ hk_err' \in {"HotkeyParseError", "HotkeyInUseError",
                          "HotkeyRegistrationError"}
          /\ hk_chord' = hk_chord
          /\ hk_pressed' = hk_pressed
          /\ hk_active' = hk_active
          /\ hk_chord_down' = hk_chord_down
          /\ hk_last_release_time' = hk_last_release_time
          /\ hk_disp' = NoDispatch]_vars

\* update_chord failed while keys were held and an utterance was running
C12_Witness ==
    /\ hk_op = "update_chord"
    /\ hk_err \in {"HotkeyParseError", "HotkeyInUseError"}
    /\ hk_pressed # {}
    /\ hk_active

\* C13: a successful update_chord leaves the pressed-key set empty and the
\* interaction state Idle, so that the new chord is not satisfied by any key
\* pressed before the change, and it emits no signal.
C13_UpdateChordResets ==
    [][(hk_op' = "update_chord" /\ hk_err' = "none") =>
          /\ hk_pressed' = {}
          /\ ~hk_active'
          /\ ~matches(hk_chord', hk_pressed')
          /\ hk_disp' = NoDispatch]_vars

\* update_chord succeeded while keys were held and an utterance was running,
\* and one of the held keys belongs to the new chord
C13_Witness ==
    /\ hk_op = "update_chord"
    /\ hk_err = "none"
    /\ hk_pressed = {}
    /\ hk_chord = parse_hotkey(<<"ctrl", "a">>)
    /\ relStamp.state = "none"
    /\ hk_chord_down

\* the transition of section 4.2 that emits signal has been made
TransitionDone(signal) ==
    CASE signal = "start" ->
            hk_active' /\ hk_last_release_time' = hk_last_release_time
      [] signal = "stop" ->
            /\ ~hk_active'
            /\ hk_last_release_time' = IF hk_toggle_mode THEN 0 ELSE now
      [] signal = "replay" ->
            ~hk_active' /\ hk_last_release_time' = 0
      [] OTHER -> TRUE

\* C14: when the handler of a key event raises, on_error is called exactly
\* once and nothing is raised into the listener thread, also when on_error
\* raises itself; the transition of the engine is made as if the handler
\* had returned, and the listener goes on delivering key events.
C14_HandlerErrorsContained ==
    [][(hk_op' \in {"press", "release"} /\ hk_disp'.raised) =>
          /\ hk_disp'.signal \in {"start", "stop", "replay"}
          /\ hk_disp'.on_error_calls = 1
          /\ ~hk_disp'.propagated
          /\ hk_err' = "none"
          /\ TransitionDone(hk_disp'.signal)
          /\ hk_listener'
          /\ hk_running' = hk_running]_vars

\* the stop handler raised and on_error raised as well
C14_Witness ==
    /\ hk_op = "release"
    /\ hk_disp.signal = "stop"
    /\ hk_disp.raised
    /\ hk_disp.on_error_raised
    /\ ~hk_active
    /\ hk_listener

\* the OS result that made start() fail: the probe's, else the registration's
FailingResult(code1, code2) == IF ~code1.ok THEN code1 ELSE code2

\* C15: start() on a stopped engine reports a chord owned by another process
\* (error 1409) as HotkeyInUseError and every other failure of RegisterHotKey
\* as HotkeyRegistrationError; after a failure the engine is not running, has
\* no listener and holds no registration; start() on a running engine changes
\* nothing.
C15_StartErrors ==
    [][hk_op' = "start" =>
          \A code1, code2 \in OsResults :
             hk_start(code1, code2) =>
                IF hk_running
                THEN /\ hk_err' = "none"
                     /\ UNCHANGED <<hk_running, hk_listener, hk_registered>>
                ELSE IF platform = "win32" /\ (~code1.ok \/ ~code2.ok)
                THEN /\ hk_err' =
                          IF FailingResult(code1, code2).error
                                = ERROR_HOTKEY_ALREADY_REGISTERED
                          THEN "HotkeyInUseError"
                          ELSE "HotkeyRegistrationError"
                     /\ ~hk_running' /\ ~hk_listener' /\ ~hk_registered'
                ELSE hk_err' = "none" /\ hk_running' /\ hk_listener']_vars

\* the part of C15 that the engine keeps: a start() that raised left the
\* engine stopped without listener or registration, and a running engine
\* is not touched
C15_FailedStartLeavesStopped ==
    [][hk_op' = "start" =>
          /\ hk_running => (hk_err' = "none" /\ UNCHANGED <<hk_running, hk_listener, hk_registered>>)
          /\ hk_err' # "none" =>
                /\ hk_err' \in {"HotkeyInUseError", "HotkeyRegistrationError"}
                /\ ~hk_running' /\ ~hk_listener' /\ ~hk_registered'
          /\ (~hk_running /\ hk_err' = "none") => (hk_running' /\ hk_listener')]_vars

(***************************************************************************)
(* Claims about chord parsing and matching.                                *)
(***************************************************************************)
\* every modifier group and the key group of c have a member in P
EveryGroupPresent(c, P) ==
    /\ \A i \in DOMAIN c.modifier_groups : c.modifier_groups[i] \cap P # {}
    /\ c.key_group \cap P # {}

\* C16: matches(P) is true exactly when every modifier group of the chord
\* has a member in P and a code of the key group is in P; so it is false for
\* the empty set, one of the two codes of a modifier is enough, and keys
\* outside the chord do not matter.
C16_MatchesIffGroupsPresent ==
    ch_op = "matches" =>
       /\ ch_match <=> EveryGroupPresent(ch_chord, ch_pressed)
       /\ ch_pressed = {} => ~ch_match
       /\ ch_match =>
             \A extra \in SUBSET ChordKeys :
                 matches(ch_chord, ch_pressed \cup extra)

\* CTRL+SHIFT+A matched by right control, shift and A, with B held as well
C16_Witness ==
    /\ ch_op = "matches"
    /\ ch_match
    /\ ch_chord.modifier_mask = 6
    /\ ch_chord.key_group = {65}
    /\ ch_pressed = {163, 160, 65, 66}

\* C17: for a string that parses, parsing the display string of the chord
\* gives an equal chord: same text, mask, modifier groups and key group.
C17_DisplayRoundTrip ==
    ch_op = "reparse" =>
       /\ IsChord(ch_reparse)
       /\ ch_reparse.text = ch_chord.text
       /\ ch_reparse.modifier_mask = ch_chord.modifier_mask
       /\ ch_reparse.modifier_groups = ch_chord.modifier_groups
       /\ ch_reparse.key_group = ch_chord.key_group

\* a string in mixed case and with an empty part, whose display differs from it
C17_Witness ==
    /\ ch_op = "reparse"
    /\ ch_text = <<"Control", "", "a">>
    /\ display(ch_chord) = <<"CONTROL", "A">>
    /\ ch_reparse = ch_chord

\* the parts of text that parse_hotkey keeps: stripped, lower case, not empty
TokensOf(text) ==
    SelectSeq([i \in DOMAIN text |-> StripLower(text[i])], LAMBDA p : p # "")

\* zero or more modifier tokens followed by one recognised non-modifier token
WellFormed(text) ==
    LET tokens == TokensOf(text)
    IN  /\ tokens # <<>>
        /\ \A i \in 1..(Len(tokens) - 1) : tokens[i] \in ModifierTokens
        /\ tokens[Len(tokens)] \notin ModifierTokens
        /\ key_to_virtual_keys(tokens[Len(tokens)]) # {}

\* C18: parse_hotkey returns a chord only for a string of modifier tokens
\* followed by exactly one recognised non-modifier token, and raises
\* HotkeyParseError for every other string.
C18_OnlyWellFormedParses ==
    ch_op = "parse" => (IsChord(ch_chord) <=> WellFormed(ch_text))

\* the part of C18 that parse_hotkey keeps: the empty string, a string without
\* a non-modifier token and a string whose last non-modifier token is not
\* recognised raise HotkeyParseError, and a well-formed string parses
C18_ListedFailures ==
    ch_op = "parse" =>
       LET tokens == TokensOf(ch_text)
           keys == SelectSeq(tokens, LAMBDA p : p \notin ModifierTokens)
       IN  /\ (\/ ch_text = <<"">>
               \/ keys = <<>>
               \/ key_to_virtual_keys(keys[Len(keys)]) = {}) => ch_chord = ParseError
           /\ WellFormed(ch_text) => IsChord(ch_chord)

(***************************************************************************)
(* Claims about reset() and the frame-size check of the detector.          *)
(***************************************************************************)
\* a freshly constructed detector with the parameters of this one, after the
\* frames classified as in h: its state and the should_stop of the last frame
RECURSIVE FreshRun(_)
FreshRun(h) ==
    IF h = <<>>
    THEN [has_speech |-> FALSE, silence_frames |-> 0, should_stop |-> FALSE]
    ELSE LET before == FreshRun(SubSeq(h, 1, Len(h) - 1))
             is_speech == h[Len(h)]
             has_speech1 == is_speech \/ before.has_speech
             silence1 == IF is_speech THEN 0 ELSE before.silence_frames + 1
         IN  [has_speech |-> has_speech1, silence_frames |-> silence1,
              should_stop |-> has_speech1 /\ silence1 >=
                   silence_threshold_of(vad_trailing_silence_ms,
                                        vad_frame_duration_ms)]

\* C19: after reset(), whatever was processed before, every frame gets the
\* should_stop that a freshly constructed detector with the same parameters
\* gives for the same classifications since the reset.
C19_ResetEqualsFresh ==
    vad_reset_from # NoReset =>
       /\ vad_has_speech = FreshRun(vad_hist).has_speech
       /\ vad_silence_frames = FreshRun(vad_hist).silence_frames
       /\ vad_out.kind = "result" =>
             vad_out.should_stop = FreshRun(vad_hist).should_stop

\* reset() came after speech and trailing silence; the silence frames since
\* then reach the threshold and should_stop is false, as for a fresh detector
C19_Witness ==
    /\ vad_reset_from # NoReset
    /\ vad_reset_from.has_speech
    /\ vad_reset_from.silence_frames > 0
    /\ vad_out.kind = "result"
    /\ Len(vad_hist) >= 2
    /\ ~vad_has_speech
    /\ vad_silence_frames >= vad_silence_threshold
    /\ ~vad_out.should_stop

\* C20: process_frame on a frame whose length is not
\* sample_rate * frame_duration_ms / 1000 raises the size-mismatch
\* ValueError and leaves _has_speech and _silence_frames as they were.
C20_WrongSizeRejected ==
    /\ [](vad_frame_size * 1000 = vad_sample_rate * vad_frame_duration_ms)
    /\ [][(vad_out'.kind # "none"
           /\ vad_frame_len' * 1000 # vad_sample_rate * vad_frame_duration_ms) =>
             /\ vad_out'.kind = "ValueError"
             /\ vad_has_speech' = vad_has_speech
             /\ vad_silence_frames' = vad_silence_frames]_vars

\* a frame one sample short was refused after speech and one silence frame
C20_Witness ==
    /\ vad_out.kind = "ValueError"
    /\ vad_frame_len = vad_frame_size - 1
    /\ vad_has_speech
    /\ vad_silence_frames = 1

(***************************************************************************)
(* Claims about the order of the signals of the hotkey engine.             *)
(***************************************************************************)
\* C21: over key events interleaved with update_chord, stop() and start(),
\* start and stop alternate, beginning with start: start is emitted only
\* when no earlier start is still without its stop, and stop only when a
\* start is.
C21_StartStopAlternate ==
    [][hk_op' \in {"press", "release"} =>
          /\ hk_disp'.signal = "start" => ~sigHist.open
          /\ hk_disp'.signal = "stop" => sigHist.open]_vars

\* the part of C21 that the engine keeps: stop is emitted only after a start
\* that has had no stop, and while the engine is active no second start is
\* emitted
C21_StopHasOpenStart ==
    /\ [](hk_active => sigHist.open)
    /\ [][hk_op' \in {"press", "release"} =>
            /\ hk_disp'.signal = "stop" => (sigHist.open /\ hk_active)
            /\ hk_disp'.signal = "start" => ~hk_active]_vars

\* C22: a key event at which the satisfaction of the chord does not change
\* emits no signal and leaves the interaction state as it is, in both modes
\* and in every state; so does a key-down while the chord stays satisfied.
C22_OnlySatisfactionEdges ==
    [][(hk_op' \in {"press", "release"} /\ ChordSatisfied = ChordSatisfied') =>
          (hk_disp' = NoDispatch /\ hk_active' = hk_active)]_vars

\* the part of C22 that the engine keeps: in toggle mode, and in hold mode
\* while an utterance is in progress or a release is on record
C22_SilentExceptIdleHold ==
    [][(hk_op' \in {"press", "release"} /\ ChordSatisfied = ChordSatisfied'
        /\ (hk_toggle_mode \/ hk_active \/ ~ChordSatisfied)) =>
          (hk_disp' = NoDispatch /\ hk_active' = hk_active)]_vars

\* replay has been emitted and the chord has been held ever since
ReplayPressHeld == sigHist.held /\ ChordSatisfied

\* a step that emits replay resets the release time and stays Idle; only a
\* release that emits stop records a release time
ReplayConsumesRelease ==
    /\ hk_disp'.signal = "replay" =>
          /\ hk_op' = "press"
          /\ hk_last_release_time # 0 /\ hk_last_release_time' = 0
          /\ ~hk_active /\ ~hk_active'
    /\ (hk_last_release_time' # hk_last_release_time
           /\ hk_last_release_time' # 0) =>
          (hk_op' = "release" /\ hk_disp'.signal = "stop")

\* the chord press that follows a replay and the release of its press
PressAfterReplayStarts ==
    (PressEdge /\ ~hk_toggle_mode /\ ~hk_active /\ relStamp.state = "used"
        /\ hk_last_release_time = 0) =>
       (hk_disp'.signal = "start" /\ hk_active')

\* C23: a stop enables at most one replay: replay resets the release time
\* and leaves the engine Idle; while the replay press is held the engine
\* stays Idle, and its release emits no stop and records no release time;
\* the next chord press emits start, also within the paste window of the
\* original release.
C23_OneReplayPerStop ==
    [][/\ ReplayConsumesRelease
       /\ PressAfterReplayStarts
       /\ (hk_op' \in {"press", "release"} /\ ReplayPressHeld) =>
             /\ hk_disp' = NoDispatch
             /\ ~hk_active'
             /\ hk_last_release_time' = 0]_vars

\* the part of C23 that the engine keeps
C23_ReplayResetsStamp ==
    [][ReplayConsumesRelease /\ PressAfterReplayStarts]_vars

(***************************************************************************)
(* Claims about the engine lock and the audio-buffer lock.                 *)
(***************************************************************************)
\* the listener thread is between acquiring and releasing the engine lock
ListenerInHandler == tr_engine_lock.owner = "listener"

\* the chord, the pressed-key set, the interaction state or the paste
\* window changes in this step
EngineStateChanges ==
    \/ hk_chord' # hk_chord
    \/ hk_pressed' # hk_pressed
    \/ hk_active' # hk_active
    \/ hk_paste_window_seconds' # hk_paste_window_seconds

\* C24: update_chord and set_paste_window_seconds are serialised against the
\* lock of the key-event handlers: while the listener thread holds the lock
\* no other thread changes the chord, the pressed-key set, the interaction
\* state or the paste window; and the pressed-key set changes only in a step
\* of a thread that holds the lock.
C24_ConfigSerialised ==
    [][/\ (ListenerInHandler /\ tr_actor' # "listener") => ~EngineStateChanges
       /\ hk_pressed' # hk_pressed => tr_engine_lock.owner = tr_actor']_vars

\* the part of C24 that the engine keeps: chord, pressed-key set and
\* interaction state change only in steps of the thread that holds the lock
C24_LockedExceptPasteWindow ==
    [][(hk_chord' # hk_chord \/ hk_pressed' # hk_pressed
           \/ hk_active' # hk_active) =>
          tr_engine_lock.owner = tr_actor']_vars

\* C25: no thread holds the engine lock and the audio-buffer lock at the
\* same time, also not while a start or stop handler is being dispatched.
C25_LocksNeverNested ==
    \A t \in Threads : ~(tr_engine_lock.owner = t /\ tr_audio_lock = t)

\* the part of C25 that the recorder keeps: the callback thread and the
\* threads that call the handlers directly never hold both locks
C25_OnlyDispatchNests ==
    \A t \in Threads :
       (tr_engine_lock.owner = t /\ tr_audio_lock = t) =>
          (t = "listener" /\ tr_pc[t] \in {"rs_locked", "st_locked"})

\* thread t cannot go on before thread u has taken a step: t waits for a
\* lock that u holds, for the callback that u runs to return, or for u to
\* exit in a join without time limit
WaitsFor(t, u) ==
    /\ t # u
    /\ \/ tr_pc[t] = "lock_wait" /\ tr_engine_lock.owner = u
       \/ /\ tr_pc[t] \in {"rs_lock_wait", "st_lock_wait", "cb_lock_wait"}
          /\ tr_audio_lock = u
       \/ tr_pc[t] = "st_wait" /\ u = "audio" /\ tr_pc["audio"] # "idle"
       \/ tr_pc[t] = "join" /\ u = "listener" /\ ~join_returns

\* t waits, directly or through other threads, for u
WaitsForChain(t, u) ==
    \/ WaitsFor(t, u)
    \/ \E v \in Threads : WaitsFor(t, v) /\ WaitsFor(v, u)
    \/ \E v, w \in Threads : WaitsFor(t, v) /\ WaitsFor(v, w) /\ WaitsFor(w, u)

\* C26: in no interleaving of the listener thread, the callback thread and
\* the tray thread do threads wait for one another in a circle, over the
\* engine lock, the audio-buffer lock and the stream teardown.
C26_NoCircularWait ==
    \A t \in Threads : ~WaitsForChain(t, t)

\* the tray thread waits for the engine lock held by the listener thread,
\* which waits for the audio-buffer lock held by the callback thread
C26_Witness ==
    /\ WaitsFor("tray", "listener")
    /\ WaitsFor("listener", "audio")
    /\ tr_audio_lock = "audio"

\* the thread is in a call that sleeps or waits: the join of the listener
\* thread, the stop of the stream, the opening of the stream
Blocking(t) == tr_pc[t] \in {"join", "st_wait", "rs_open"}

\* C27: no thread sleeps or waits in a blocking call while it holds the
\* engine lock or the audio-buffer lock, stop() of the engine and the
\* handlers it dispatches included.
C27_NoBlockingUnderLock ==
    \A t \in Threads :
       Blocking(t) => (tr_engine_lock.owner # t /\ tr_audio_lock # t)

\* the part of C27 that the recorder keeps: nothing blocks under the
\* audio-buffer lock
C27_AudioLockNeverBlocks ==
    \A t \in Threads : Blocking(t) => tr_audio_lock # t

(***************************************************************************)
(* Claims about the coordinator's audio-chunk handler and auto-stop.       *)
(***************************************************************************)

\* a session is running with the detector attached
SessionWithVad == co_recording_active /\ co_vad.attached

\* the frames fed so far are the frames of the captured samples, one after
\* the other from sample 0: none skipped, none fed twice
FedOnceInOrder ==
    \A i \in 1..Len(co_fed) : co_fed[i] = (i - 1) * vad_frame_size

\* the fed frames and the carried-over remainder make up the captured
\* samples exactly
CarryIsTheRest ==
    /\ co_vad_carry.from = Len(co_fed) * vad_frame_size
    /\ co_vad_carry.to = co_captured

\* C28: during a session, after every invocation of the audio-chunk handler
\* the carried-over remainder is shorter than one VAD frame, and every
\* captured sample has been fed to process_frame exactly once, in arrival
\* order, or is still in the remainder.
C28_CarryShortFedOnce ==
    (SessionWithVad /\ co_captured > 0) =>
        /\ RangeLen(co_vad_carry) < vad_frame_size
        /\ FedOnceInOrder
        /\ CarryIsTheRest

\* C28, as the handler keeps it: the statement holds as long as
\* process_frame has not reported should_stop in the session.
C28_UntilShouldStop ==
    (SessionWithVad /\ co_captured > 0 /\ ~co_log.should_stop) =>
        /\ RangeLen(co_vad_carry) < vad_frame_size
        /\ FedOnceInOrder
        /\ CarryIsTheRest

\* C28, what happens after should_stop: the frame that reported it stays at
\* the head of the remainder, which is then at least one frame long.
C28_StopFrameKept ==
    (SessionWithVad /\ co_log.should_stop) =>
        /\ RangeLen(co_vad_carry) >= vad_frame_size
        /\ co_vad_carry.from = co_fed[Len(co_fed)]

\* process_frame has reported should_stop in the running session
StopReported == SessionWithVad /\ co_log.should_stop

\* AudioRecorder.stop() has been invoked for the session
RecorderStopped == co_log.stops # <<>>

C29_StopOnlyByUser ==
    /\ [](\A i \in 1..Len(co_log.stops) : co_log.stops[i] = "user")
    /\ [][(co_captured' # co_captured /\ co_log'.should_stop) =>
            /\ co_recording_active' = co_recording_active
            /\ co_streaming' = co_streaming
            /\ co_vad_stop_requested' = co_vad_stop_requested
            /\ co_stop_threads' = co_stop_threads
            /\ co_log'.stops = co_log.stops]_vars

\* should_stop is reported in this step with no stop requested before
ReportedNow ==
    /\ SessionWithVad
    /\ co_captured' # co_captured
    /\ ~co_vad_stop_requested
    /\ should_stop_of(co_vad'.has_speech, co_vad'.silence_frames)

\* C30: when auto-stop fires, AudioRecorder.stop() is not executed on the
\* audio callback thread; the coordinator hands the stop to a separate
\* thread, and at most one stop thread is started per session.
C30_StopHandedToOneThread ==
    /\ [](\A i \in 1..Len(co_log.stops) : co_log.stops[i] # "callback")
    /\ [](co_log.threads <= 1)
    /\ [][ReportedNow =>
            /\ co_vad_stop_requested'
            /\ co_stop_threads' = co_stop_threads + 1
            /\ co_log'.threads = 1]_vars

\* C30, the part the code keeps: the audio callback never stops the
\* recorder and a session starts at most one stop thread; in fact it
\* starts none and never sets the request flag.
C30_NoStopOnCallbackThread ==
    /\ \A i \in 1..Len(co_log.stops) : co_log.stops[i] # "callback"
    /\ co_log.threads = 0
    /\ co_stop_threads = 0
    /\ ~co_vad_stop_requested

(***************************************************************************)
(* Claims about the engine's modes and its latch.                          *)
(***************************************************************************)

\* C39: in toggle mode the engine never emits replay, whatever the key
\* events and the paste window, and _last_release_time stays zero.
C39_ToggleNeverReplays ==
    hk_toggle_mode =>
        /\ hk_disp.signal # "replay"
        /\ hk_last_release_time = 0

\* C39, its case: in toggle mode with a paste window open for the whole
\* run, a session was stopped and the chord is pressed again right after
C39_Witness ==
    /\ hk_toggle_mode
    /\ hk_paste_window_seconds >= MaxTime
    /\ hk_op = "press"
    /\ hk_disp.signal = "start"
    /\ relStamp.state = "none"
    /\ sigHist.open
    /\ now > 1
    /\ hk_last_release_time = 0

\* hold/release mode with an utterance in progress
ActiveHold == ~hk_toggle_mode /\ hk_active

\* C38: in hold/release mode, between key events, the engine is in
\* ActiveHold only if the pressed keys satisfy the chord; a stop is emitted
\* only from ActiveHold, and a start or a replay only from Idle.
C38_ActiveHoldOnlyWhileHeld ==
    /\ [](ActiveHold => matches(hk_chord, hk_pressed))
    /\ [][~hk_toggle_mode =>
            /\ hk_disp'.signal = "stop" => (hk_active /\ ~hk_active')
            /\ hk_disp'.signal \in {"start", "replay"} => ~hk_active]_vars

\* C38, its case: the release of a chord key has ended an utterance that
\* was in progress with more keys down than the chord asks for
C38_Witness ==
    /\ ~hk_toggle_mode
    /\ hk_op = "release"
    /\ hk_disp.signal = "stop"
    /\ ~hk_active
    /\ hk_pressed # {}
    /\ ~matches(hk_chord, hk_pressed)

\* C32: between key events, the toggle-mode latch _chord_down is set only
\* if the pressed keys satisfy the chord, so that after update_chord, or
\* after stop() and start(), the first key-down that satisfies the chord is
\* an edge and emits a signal.
C32_LatchOnlyWhileSatisfied ==
    /\ []((hk_toggle_mode /\ hk_chord_down) => matches(hk_chord, hk_pressed))
    /\ [][(hk_toggle_mode /\ PressEdge) =>
             hk_disp'.signal \in {"start", "stop"}]_vars

(***************************************************************************)
(* Claims about applying settings.                                         *)
(***************************************************************************)

\* the calls _on_settings_applied makes when nothing fails
SettingsOrder == <<"stop", "set_paste_window_seconds", "update_chord", "start">>

\* the calls of restore_previous_hotkey
RestoreOrder == <<"restore set_paste_window_seconds", "restore update_chord",
                  "restore start">>

\* the calls made so far are the settings calls in order up to the first
\* failure, followed by the restore calls in order
CallsInOrder ==
    \E n \in 0..4, m \in 0..3 :
        /\ m > 0 => n > 1
        /\ se_calls = SubSeq(SettingsOrder, 1, n) \o SubSeq(RestoreOrder, 1, m)

\* the handler has returned
SettingsDone == se_pc = "idle" /\ se_outcome # "none"

\* the engine has the configuration of the settings
NewConfig ==
    /\ hk_chord = parse_hotkey(se_new.chord_text)
    /\ hk_paste_window_seconds = se_new.paste_window

\* the engine has the configuration it had before
PreviousConfig ==
    /\ hk_chord = se_prev.chord
    /\ hk_paste_window_seconds = se_prev.paste_window

\* C31: applying settings stops the engine, sets the paste window, updates
\* the chord and starts the engine, in that order; when a step fails the
\* previous paste window and chord are restored and the engine is started
\* again, so that the engine ends up running with the new or the previous
\* configuration.
C31_EndsRunningNewOrPrevious ==
    /\ CallsInOrder
    /\ SettingsDone => (hk_running /\ (NewConfig \/ PreviousConfig))

\* C31, as the code has it: the calls are made in that order; the engine
\* ends up running with the new configuration, or running with the
\* previous one, or, when a call of the restore fails too, stopped with
\* the previous paste window.
C31_EndsRunningUnlessRestoreFails ==
    /\ CallsInOrder
    /\ SettingsDone =>
          CASE se_outcome = "applied" -> hk_running /\ NewConfig
            [] se_outcome = "restored" -> hk_running /\ PreviousConfig
            [] OTHER -> /\ ~hk_running
                        /\ hk_paste_window_seconds = se_prev.paste_window

(***************************************************************************)
(* Claims about the engine among the threads of the application.           *)
(***************************************************************************)

\* C33: after stop() has returned and until the next start(), no handler is
\* dispatched and the pressed-key set stays empty, also when a key event
\* was waiting for the engine lock on the listener thread while stop()
\* ran.
C33_StoppedEngineStaysQuiet ==
    ~hk_running => (hk_pressed = {} /\ hk_disp.signal = "none")

\* C33, as the code has it: the key event that was in flight is handled
\* after stop() has returned; with the two-key chord it puts its one key in
\* the pressed-key set and dispatches nothing.
C33_OnlyTheEventInFlight ==
    ~hk_running =>
        /\ Cardinality(hk_pressed) <= 1
        /\ hk_disp.signal = "none"

\* no key-event handler, menu handler or engine call is in progress
NoHandlerRunning == tr_pc["listener"] = "idle" /\ tr_pc["tray"] = "idle"

\* C34: whenever no handler is executing, AppRuntime._recording_active
\* equals HotkeyManager._active, whatever chord presses, menu toggles,
\* failed recorder starts and engine calls came before; a chord press then
\* stops a recording that is going on and starts one when none is.
C34_RecordingFollowsEngine ==
    NoHandlerRunning => (tr_recording_active = hk_active)

(***************************************************************************)
(* Claims about concurrent calls of the recorder.                          *)
(***************************************************************************)
\* C36: however concurrent start() calls interleave, at most one input
\* stream is open, and the recorder holds the reference to every open
\* stream
C36_OneStreamHeld ==
    Cardinality(sd_live) <= 1 /\ sd_live \subseteq {rec_stream}

\* the blocks whose rows are in an array
FramesOf(data) == {[stream |-> data[i].stream, seq |-> data[i].seq] :
                     i \in 1..Len(data)}

\* what the stop() calls have taken so far: the result each thread holds
\* inside stop(), and the result its last stop() returned
StopResults ==
    [h \in {<<t, w>> : t \in Callers, w \in {"local", "returned"}} |->
        IF h[2] = "local" THEN loc_result[h[1]].data
        ELSE IF ret[h[1]].op = "stop" THEN ret[h[1]].data ELSE <<>>]

\* the rows of an array are in the order the hardware delivered them
InArrivalOrder(data) ==
    \A i, j \in 1..Len(data) :
       i < j => \/ data[i].seq < data[j].seq
                \/ data[i].seq = data[j].seq /\ data[i].row < data[j].row

\* a step that reads or changes the buffer
TouchesBuffer ==
    \/ rec_buffer' # rec_buffer
    \/ rec_ev' # rec_ev /\ rec_ev'.op \in {"stop_taken", "duration_read",
                                           "start_locked", "cb_append"}

\* C37: however concurrent stop() calls interleave with the callback's
\* appends, a block is in the result of at most one stop() call (and no
\* longer in the buffer), the rows of a result are in arrival order, and a
\* step reads or changes the buffer only by taking the free audio-buffer
\* lock, which its thread then holds
C37_StopsShareNoFrame ==
    /\ [](\A h1, h2 \in DOMAIN StopResults :
             h1 # h2 => FramesOf(StopResults[h1])
                           \cap FramesOf(StopResults[h2]) = {})
    /\ [](\A h \in DOMAIN StopResults :
             /\ FramesOf(StopResults[h]) \cap FramesOf(rec_buffer) = {}
             /\ InArrivalOrder(StopResults[h]))
    /\ [][TouchesBuffer => (rec_lock = "free" /\ rec_lock' = rec_ev'.t)]_vars

\* two stop() calls have returned, one after the other took its share, each
\* with blocks of the session
C37_Witness ==
    /\ ret["c1"].op = "stop" /\ ret["c2"].op = "stop"
    /\ ret["c1"].data # <<>> /\ ret["c2"].data # <<>>
    /\ pc["c1"] = "idle" /\ pc["c2"] = "idle"
    /\ hSession # 0
    /\ FramesOf(ret["c1"].data) \cup FramesOf(ret["c2"].data)
          \subseteq hAppended

(***************************************************************************)
(* Claims about the recording handlers run by several threads.             *)
(***************************************************************************)
\* C35: however concurrent _handle_record_stop calls of one session
\* interleave, AudioRecorder.stop() is called once, at most one
\* transcription timer is started, and the timer transcribes the audio the
\* session captured
C35_OneStopOneTimer ==
    /\ ap_log.stop_calls <= 1
    /\ ap_log.scheduled <= 1
    /\ ap_log.fired > 0 => FramesOf(ap_log.transcribed) = hAppended

(***************************************************************************)
(* Claims about the handlers the engine dispatches.                        *)
(***************************************************************************)
\* where a thread is while it runs _handle_record_start or
\* _handle_record_stop
HandlerPositions ==
    {"hs_begin", "rs_check", "rs_lock_wait", "rs_locked", "rs_open",
     "hp_begin", "st_wait", "st_lock_wait", "st_locked"}

\* listener thread t runs a handler that _dispatch called
InDispatchedHandler(t) == tr_pc[t] \in HandlerPositions

\* listener thread t is between the start of the with-block of _on_press or
\* _on_release and its end
Processing(t) == tr_pc[t] \in {"locked", "unlock"} \cup HandlerPositions

\* C40: a handler the engine dispatches runs while its thread holds the
\* engine lock, so no two dispatched handlers run at the same time, and a
\* key event is processed only when the handler of the event processed
\* before it has returned
C40_DispatchedHandlersSerial ==
    /\ [](\A t \in Listeners :
             InDispatchedHandler(t) => tr_engine_lock.owner = t)
    /\ [](Cardinality({t \in Listeners : Processing(t)}) <= 1)
    /\ [][\A t \in Listeners :
             (tr_pc[t] = "locked" /\ tr_pc'[t] # "locked")
                => \A u \in Listeners \ {t} : ~InDispatchedHandler(u)]_vars

\* the thread of a stopped listener runs a handler while the thread of the
\* running listener waits for the lock with the next key event
C40_Witness ==
    \E t \in Listeners, u \in Listeners :
       /\ t # u
       /\ tr_listener = u
       /\ InDispatchedHandler(t)
       /\ tr_pc[u] = "lock_wait"
       /\ hk_running

=============================================================================
